---- MODULE Spec2Model ----
(***************************************************************************)
(* Model of the read_surf command (src/src/read_surf.cpp): a surface file  *)
(* is read by the coordinator (rank 0), replicated to every worker by      *)
(* collective broadcasts, parsed identically on each worker, transformed, *)
(* validated and finally committed to each worker's geometry store.       *)
(*                                                                         *)
(* Numbers.  A length is an integer count of "fine units"; one fine unit   *)
(* is EPSILON (1e-6) of the length 1.0, so the length 1.0 is EPSILON_INV   *)
(* fine units and the proximity threshold epsilon = EPSILON * (shortest    *)
(* box edge) is a whole number of fine units.  Dimensionless numbers       *)
(* (scale factors, box fractions, axis components) are counted in halves.  *)
(* Floating-point rounding is not modelled: arithmetic is exact.           *)
(*                                                                         *)
(* Text.  A line of text is the sequence of its whitespace-separated       *)
(* tokens (strings); a blank line is the empty sequence.                   *)
(***************************************************************************)
EXTENDS Integers, Sequences, FiniteSets, TLC

VARIABLES
  dimension,    \* domain->dimension (2 or 3)
  nprocs,       \* number of workers in the communicator `world'
  grid_exist,   \* grid->grid_exist
  fexist,       \* whether fopen/popen of arg[1] succeeds
  file,         \* the source: a sequence of lines
  arg,          \* the command's arguments arg[0..narg-1] (1-based here)
  store,        \* the geometry store as it is when the command starts
  fp,           \* coordinator's position in the file: index of the next line
  bc,           \* broadcasts the coordinator has issued, in order
  aborted,      \* error->one was called: the group is being aborted
  pc,           \* pc[w]: where worker w is in command()
  status,       \* status[w]: "run", "done", "killed", "crash" or an error text
  bclog,        \* bclog[w]: the MPI_Bcast calls worker w has issued
  surf,         \* surf[w]: worker w's geometry store
  id,           \* id[w]: surface id returned by add_id
  npoint_new, nline_new, ntri_new,
  npoint_old, nline_old, ntri_old,
  line,         \* line[w]: the line buffer
  keyword,      \* keyword[w]: the keyword buffer
  nread,        \* nread[w]: records read so far in the current section
  pts, lines, tris,   \* the arrays being extended (old block ++ new block)
  origin,       \* origin[w]: the transform origin
  iarg,         \* iarg[w]: index of the next directive token
  nbad          \* nbad[w]: the count a failed validator reports

vars == <<dimension, nprocs, grid_exist, fexist, file, arg, store, fp, bc, aborted,
          pc, status, bclog, surf, id, npoint_new, nline_new, ntri_new,
          npoint_old, nline_old, ntri_old, line, keyword, nread,
          pts, lines, tris, origin, iarg, nbad>>

inputVars == <<dimension, nprocs, grid_exist, fexist, file, arg, store>>
countVars == <<npoint_new, nline_new, ntri_new, npoint_old, nline_old, ntri_old>>
geomVars == <<pts, lines, tris, origin>>

(***************************************************************************)
(* Bounds and program constants                                            *)
(***************************************************************************)
MaxProcs == 2

CHUNK == 1024

EPSILON_INV == 1000000

Unit == EPSILON_INV          \* the length 1.0 in fine units

HalfUnit == Unit \div 2      \* the length 0.5 in fine units

AllProcs == 0 .. (MaxProcs - 1)

Procs == 0 .. (nprocs - 1)

MIN(a, b) == IF a < b THEN a ELSE b

MAX(a, b) == IF a > b THEN a ELSE b

Abs(a) == IF a < 0 THEN -a ELSE a

(***************************************************************************)
(* Text conversions                                                        *)
(***************************************************************************)
\* atoi(): the integer a token denotes; a token that is no numeral gives 0
atoi(t) ==
  CASE t = "-1" -> -1
    [] t = "1" -> 1
    [] t = "2" -> 2
    [] t = "3" -> 3
    [] t = "4" -> 4
    [] t = "5" -> 5
    [] t = "6" -> 6
    [] t = "9" -> 9
    [] t = "12" -> 12
    [] OTHER -> 0

\* whether sscanf("%d") converts the token
IsInt(t) == t \in {"-1", "0", "1", "2", "3", "4", "5", "6", "9", "12"}

\* atof() of a dimensionless number, in halves
atofH(t) ==
  CASE t = "0.5" -> 1
    [] t = "1.5" -> 3
    [] OTHER -> 2 * atoi(t)

\* atof() of a length, in fine units
atof(t) == atofH(t) * HalfUnit

\* strlen() of a line as fgets returns it (tokens, separators, newline)
RECURSIVE SumTok(_)
SumTok(l) == IF l = <<>> THEN 0 ELSE Len(Head(l)) + 1 + SumTok(Tail(l))

strlen(l) == IF l = <<>> THEN 1 ELSE SumTok(l)

\* strspn(line," \t\n\r") == strlen(line)
IsBlank(l) == l = <<>>

\* if (ptr = strchr(line,'#')) *ptr = '\0'
RECURSIVE StripComment(_)
StripComment(l) ==
  IF l = <<>> THEN <<>>
  ELSE IF Head(l) = "#" THEN <<>>
  ELSE <<Head(l)>> \o StripComment(Tail(l))

\* strstr(line,word): no token of the vocabulary contains another as a part
strstr(l, word) == \E i \in 1 .. Len(l) : l[i] = word

\* sscanf(line,"%d",&x): x keeps its value when the line has no leading integer
sscanf(l, old) == IF l # <<>> /\ IsInt(l[1]) THEN atoi(l[1]) ELSE old

\* count_words(): tokens before a '#'
count_words(l) == Len(StripComment(l))

(***************************************************************************)
(* The domain box (domain->boxlo, boxhi, xprd, yprd, zprd).  A 2-D domain  *)
(* spans z in (-0.5, 0.5), so that z = 0 is strictly inside.               *)
(***************************************************************************)
boxlo(dim) == IF dim = 3 THEN <<0, 0, 0>> ELSE <<0, 0, -HalfUnit>>

boxhi(dim) == IF dim = 3 THEN <<12 * Unit, 12 * Unit, 12 * Unit>>
              ELSE <<12 * Unit, 12 * Unit, HalfUnit>>

prd(dim) == [k \in 1 .. 3 |-> boxhi(dim)[k] - boxlo(dim)[k]]

(***************************************************************************)
(* Geometry stores a command can start from: the empty store, and a store  *)
(* holding one earlier watertight surface of the same dimensionality.      *)
(***************************************************************************)
EmptySurf ==
  [surf_exist |-> 0, ids |-> <<>>, npoint |-> 0, nline |-> 0, ntri |-> 0,
   pts |-> <<>>, lines |-> <<>>, tris |-> <<>>]

PriorSurf(dim) ==
  IF dim = 2
  THEN [surf_exist |-> 1, ids |-> <<"s0">>, npoint |-> 2, nline |-> 2, ntri |-> 0,
        pts |-> << <<6 * Unit, 3 * Unit, 0>>, <<6 * Unit, 6 * Unit, 0>> >>,
        lines |-> << [id |-> 0, p1 |-> 0, p2 |-> 1], [id |-> 0, p1 |-> 1, p2 |-> 0] >>,
        tris |-> <<>>]
  ELSE [surf_exist |-> 1, ids |-> <<"s0">>, npoint |-> 3, nline |-> 0, ntri |-> 2,
        pts |-> << <<6 * Unit, 6 * Unit, 6 * Unit>>, <<9 * Unit, 6 * Unit, 6 * Unit>>,
                   <<6 * Unit, 9 * Unit, 6 * Unit>> >>,
        lines |-> <<>>,
        tris |-> << [id |-> 0, p1 |-> 0, p2 |-> 1, p3 |-> 2],
                    [id |-> 0, p1 |-> 0, p2 |-> 2, p3 |-> 1] >>]

Stores(dim) == {EmptySurf, PriorSurf(dim)}

(***************************************************************************)
(* Source files.  File2 is a closed 2-D triangle, File3 a closed           *)
(* tetrahedron; the other files differ from them in one place.             *)
(***************************************************************************)
File2 ==
  << <<"surf", "file">>, <<"3", "points">>, <<"3", "lines">>, <<>>,
     <<"Points">>, <<>>,
     <<"1", "3", "3">>, <<"2", "9", "3">>, <<"3", "6", "9">>,
     <<>>, <<"Lines">>, <<>>,
     <<"1", "1", "2">>, <<"2", "2", "3">>, <<"3", "3", "1">> >>

File3 ==
  << <<"surf", "file">>, <<"4", "points">>, <<"4", "triangles">>, <<>>,
     <<"Points">>, <<>>,
     <<"1", "3", "3", "3">>, <<"2", "9", "3", "3">>,
     <<"3", "3", "9", "3">>, <<"4", "3", "3", "9">>,
     <<>>, <<"Triangles">>, <<>>,
     <<"1", "1", "3", "2">>, <<"2", "1", "2", "4">>,
     <<"3", "2", "3", "4">>, <<"4", "1", "4", "3">> >>

\* two points, two degenerate triangles (1,2,1)
FileDegen3 ==
  << <<"surf", "file">>, <<"2", "points">>, <<"2", "triangles">>, <<>>,
     <<"Points">>, <<>>,
     <<"1", "3", "3", "3">>, <<"2", "9", "3", "3">>,
     <<>>, <<"Triangles">>, <<>>,
     <<"1", "1", "2", "1">>, <<"2", "1", "2", "1">> >>

Sub(f, i, l) == [f EXCEPT ![i] = l]

Cut(f, k) == SubSeq(f, 1, k)

Del(f, i) == SubSeq(f, 1, i - 1) \o SubSeq(f, i + 1, Len(f))

Ins(f, i, ls) == SubSeq(f, 1, i - 1) \o ls \o SubSeq(f, i, Len(f))

Truncations(f) == {Cut(f, k) : k \in 0 .. (Len(f) - 1)}

HeaderFiles2 ==
  { Ins(Sub(File2, 2, <<"3", "points", "#", "count">>), 2, << <<"#", "note">>, <<>> >>),
    Del(File2, 2),
    Sub(File2, 2, <<"0", "points">>),
    Sub(File2, 2, <<"points">>),
    Ins(File2, 3, << <<"5", "points">> >>),
    Ins(File2, 2, << <<"5", "points">> >>),
    Ins(File2, 4, << <<"4", "triangles">> >>),
    Del(File2, 3),
    Sub(File2, 3, <<"0", "lines">>),
    Sub(File2, 5, <<"Vertices">>),
    Sub(File2, 11, <<"Triangles">>),
    Del(File2, 6),
    Del(File2, 4),
    Ins(File2, 10, << <<>> >>),
    Sub(File2, 10, <<"#", "end", "of", "points">>) }

HeaderFiles3 ==
  { Ins(File3, 3, << <<"3", "lines">> >>),
    Del(File3, 3),
    Sub(File3, 3, <<"0", "triangles">>),
    Sub(File3, 12, <<"Lines">>) }

RecordFiles2 ==
  { Sub(File2, 7, <<"1", "3", "3", "0">>),
    Sub(File2, 7, <<>>),
    Sub(File2, 8, <<"2", "9", "3", "0">>),
    Sub(File2, 8, <<"2", "9">>),
    Sub(File2, 9, <<"3", "6">>),
    Sub(File2, 13, <<"1", "1", "2", "3">>),
    Sub(File2, 14, <<"2", "2", "3", "1">>),
    Sub(File2, 14, <<"2", "2">>),
    Sub(File2, 13, <<"1", "0", "2">>),
    Sub(File2, 14, <<"2", "2", "4">>),
    Sub(File2, 14, <<"2", "-1", "3">>),
    Sub(File2, 15, <<"3", "3", "3">>),
    Sub(File2, 15, <<"3", "1", "3">>) }

RecordFiles3 ==
  { Sub(File3, 7, <<"1", "3", "3">>),
    Sub(File3, 8, <<"2", "9", "3", "3", "3">>),
    Sub(File3, 8, <<"2", "9", "3">>),
    Sub(File3, 14, <<"1", "1", "3">>),
    Sub(File3, 15, <<"2", "1", "2", "4", "4">>),
    Sub(File3, 15, <<"2", "1", "2">>),
    Sub(File3, 14, <<"1", "1", "1", "2">>),
    Sub(File3, 15, <<"2", "1", "2", "2">>),
    Sub(File3, 15, <<"2", "1", "2", "1">>),
    Sub(File3, 16, <<"3", "4", "3", "4">>),
    Sub(File3, 16, <<"3", "2", "3", "5">>),
    Sub(File3, 17, <<"4", "0", "4", "3">>),
    Sub(File3, 17, <<"4", "1", "3", "4">>),
    FileDegen3 }

GeometryFiles2 ==
  { Sub(File2, 7, <<"1", "0", "3">>),
    Sub(File2, 8, <<"2", "12", "3">>),
    Sub(File2, 9, <<"3", "9", "3">>),
    Sub(File2, 15, <<"3", "3", "2">>) }

GeometryFiles3 ==
  { Sub(File3, 10, <<"4", "3", "3", "12">>),
    Sub(File3, 10, <<"4", "3", "3", "0">>),
    Sub(File3, 9, <<"3", "9", "3", "3">>),
    Sub(File3, 17, <<"4", "1", "3", "2">>) }

BadFiles(dim) ==
  IF dim = 2
  THEN Truncations(File2) \cup HeaderFiles2 \cup RecordFiles2 \cup GeometryFiles2
  ELSE Truncations(File3) \cup HeaderFiles3 \cup RecordFiles3 \cup GeometryFiles3

GoodFile(dim) == IF dim = 2 THEN File2 ELSE File3

(***************************************************************************)
(* Command arguments: surface id, file name, then directives.             *)
(***************************************************************************)
Directives ==
  { <<"origin", "3", "3", "0">>, <<"origin", "3", "3", "3">>,
    <<"trans", "1", "1", "0">>, <<"trans", "-1", "0", "1">>,
    <<"atrans", "6", "6", "0">>, <<"atrans", "6", "5", "6">>,
    <<"ftrans", "0.5", "0.5", "0.5">>, <<"ftrans", "0.5", "0.5", "0">>,
    <<"scale", "0.5", "1.5", "1">>, <<"scale", "1", "1", "0.5">>,
    <<"rotate", "1.5708", "0", "0", "1">>, <<"rotate", "1.5708", "2", "0", "0">>,
    <<"rotate", "1.5708", "0", "0", "0">>,
    <<"invert">>,
    <<"mirror">>, <<"trans", "1", "1">>, <<"rotate", "1.5708", "0", "0">> }

ArgLists ==
  {<<"s1", "f">>}
    \cup {<<"s1", "f">> \o d : d \in Directives}
    \cup {<<"s1", "f">> \o d \o e : d \in Directives, e \in Directives}

\* argument lists used with more than one worker and with the malformed files
FewArgLists == { <<"s1", "f">>, <<"s1", "f", "invert">>,
                 <<"s1", "f", "trans", "1", "1", "0", "mirror">> }

Case(dim, f, a, g, x, s, n) ==
  [dim |-> dim, file |-> f, arg |-> a, grid |-> g, fexist |-> x, store |-> s, n |-> n]

\* every file, store and argument list with one worker; every malformed file
\* with two workers; with more than two workers the good file and the files
\* that end early
Cases ==
  UNION { { Case(dim, GoodFile(dim), a, TRUE, TRUE, s, 1) :
              a \in ArgLists, s \in Stores(dim) }
          \cup { Case(dim, f, <<"s1", "f">>, TRUE, TRUE, s, 1) :
                   f \in BadFiles(dim), s \in Stores(dim) }
          \cup { Case(dim, f, <<"s1", "f">>, TRUE, TRUE, EmptySurf, n) :
                   f \in BadFiles(dim), n \in 2 .. MIN(2, MaxProcs) }
          \cup { Case(dim, f, <<"s1", "f">>, TRUE, TRUE, EmptySurf, n) :
                   f \in Truncations(GoodFile(dim)), n \in 3 .. MaxProcs }
          \cup { Case(dim, GoodFile(dim), a, TRUE, TRUE, s, n) :
                   a \in FewArgLists, s \in Stores(dim), n \in 2 .. MIN(2, MaxProcs) }
          \cup { Case(dim, GoodFile(dim), <<"s1", "f", "invert">>, TRUE, TRUE, EmptySurf, n) :
                   n \in 3 .. MaxProcs }
          \cup { Case(dim, GoodFile(dim), <<"s1", "f">>, FALSE, TRUE, s, n) :
                   s \in Stores(dim), n \in 1 .. MaxProcs }
          \cup { Case(dim, GoodFile(dim), <<"s1", "f">>, TRUE, FALSE, s, n) :
                   s \in Stores(dim), n \in 1 .. MaxProcs }
          \cup { Case(dim, GoodFile(dim), <<"s1">>, TRUE, TRUE, s, n) :
                   s \in Stores(dim), n \in 1 .. MaxProcs }
          : dim \in {2, 3} }

PerProc(c, x) == [w \in 0 .. (c.n - 1) |-> x]

InitCase(c) ==
  /\ dimension = c.dim
  /\ nprocs = c.n
  /\ grid_exist = c.grid
  /\ fexist = c.fexist
  /\ file = c.file
  /\ arg = c.arg
  /\ store = c.store
  /\ fp = 1
  /\ bc = <<>>
  /\ aborted = FALSE
  /\ pc = PerProc(c, "start")
  /\ status = PerProc(c, "run")
  /\ bclog = PerProc(c, <<>>)
  /\ surf = PerProc(c, c.store)
  /\ id = PerProc(c, 0)
  /\ npoint_new = PerProc(c, 0)
  /\ nline_new = PerProc(c, 0)
  /\ ntri_new = PerProc(c, 0)
  /\ npoint_old = PerProc(c, 0)
  /\ nline_old = PerProc(c, 0)
  /\ ntri_old = PerProc(c, 0)
  /\ line = PerProc(c, <<>>)
  /\ keyword = PerProc(c, <<>>)
  /\ nread = PerProc(c, 0)
  /\ pts = PerProc(c, <<>>)
  /\ lines = PerProc(c, <<>>)
  /\ tris = PerProc(c, <<>>)
  /\ origin = PerProc(c, <<0, 0, 0>>)
  /\ iarg = PerProc(c, 2)
  /\ nbad = PerProc(c, 0)

Init == \E c \in Cases : InitCase(c)

(***************************************************************************)
(* Fatal errors (class Error).  error->all is called by every worker and   *)
(* ends the calling worker; error->one is called by one worker and aborts  *)
(* the whole group (MPI_Abort).                                            *)
(***************************************************************************)
error_all(w, msg) ==
  /\ pc' = [pc EXCEPT ![w] = "halted"]
  /\ status' = [status EXCEPT ![w] = msg]

error_one(w, msg) ==
  /\ pc' = [pc EXCEPT ![w] = "halted"]
  /\ status' = [status EXCEPT ![w] = msg]
  /\ aborted' = TRUE

\* the group abort reaches worker w
Killed(w) ==
  /\ w \in Procs
  /\ aborted
  /\ pc[w] \notin {"halted", "done"}
  /\ pc' = [pc EXCEPT ![w] = "halted"]
  /\ status' = [status EXCEPT ![w] = "killed"]
  /\ UNCHANGED <<inputVars, fp, bc, aborted, bclog, surf, id, countVars,
                 line, keyword, nread, geomVars, iarg, nbad>>

\* a null-pointer dereference ends the worker
crash(w) ==
  /\ pc' = [pc EXCEPT ![w] = "halted"]
  /\ status' = [status EXCEPT ![w] = "crash"]

goto(w, l) ==
  /\ pc' = [pc EXCEPT ![w] = l]
  /\ UNCHANGED status

(***************************************************************************)
(* MPI_Bcast from rank 0.  The coordinator's call posts the message; a     *)
(* call of another worker returns once the coordinator has posted the      *)
(* message of the same position in the sequence of broadcasts.             *)
(***************************************************************************)
IntMsg(v) == [typ |-> "int", count |-> 1, ival |-> v, text |-> <<>>]

CharMsg(n, ls) == [typ |-> "char", count |-> n, ival |-> 0, text |-> ls]

Call(m) == <<m.typ, m.count>>

\* position in bc of worker w's next broadcast
NextBc(w) == Len(bclog[w]) + 1

\* Surf::add_id: registers the id and returns its index
add_id(s, name) == [s EXCEPT !.ids = Append(@, name)]

(***************************************************************************)
(* command(), lines 57-77, and header() up to its loop                     *)
(***************************************************************************)
Begin(w) ==
  /\ w \in Procs
  /\ pc[w] = "start"
  /\ UNCHANGED <<inputVars, bc, bclog, npoint_old, nline_old, ntri_old,
                 line, keyword, nread, geomVars, iarg, nbad>>
  /\ IF ~grid_exist
     THEN /\ error_all(w, "Cannot read_surf before grid is defined")
          /\ UNCHANGED <<surf, id, fp, aborted, npoint_new, nline_new, ntri_new>>
     ELSE IF Len(arg) < 2
     THEN /\ surf' = [surf EXCEPT ![w].surf_exist = 1]
          /\ error_all(w, "Illegal read_surf command")
          /\ UNCHANGED <<id, fp, aborted, npoint_new, nline_new, ntri_new>>
     ELSE /\ surf' = [surf EXCEPT ![w] = add_id([@ EXCEPT !.surf_exist = 1], arg[1])]
          /\ id' = [id EXCEPT ![w] = Len(surf[w].ids)]
          /\ IF w = 0 /\ ~fexist
             THEN /\ error_one(w, "Cannot open file")
                  /\ UNCHANGED <<fp, npoint_new, nline_new, ntri_new>>
             ELSE IF w = 0 /\ fp > Len(file)
             THEN /\ error_one(w, "Unexpected end of data file")
                  /\ UNCHANGED <<fp, npoint_new, nline_new, ntri_new>>
             ELSE /\ fp' = IF w = 0 THEN fp + 1 ELSE fp
                  /\ npoint_new' = [npoint_new EXCEPT ![w] = 0]
                  /\ nline_new' = [nline_new EXCEPT ![w] = 0]
                  /\ ntri_new' = [ntri_new EXCEPT ![w] = 0]
                  /\ goto(w, "header")
                  /\ UNCHANGED aborted

(***************************************************************************)
(* header(): one pass of its loop over a line already stripped of its      *)
(* comment.  next is "continue", "break" or the text of a fatal error.     *)
(***************************************************************************)
header_line(dim, l, np, nl, nt) ==
  IF IsBlank(l)
  THEN [next |-> "continue", np |-> np, nl |-> nl, nt |-> nt]
  ELSE IF strstr(l, "points")
  THEN [next |-> "continue", np |-> sscanf(l, np), nl |-> nl, nt |-> nt]
  ELSE IF strstr(l, "lines")
  THEN IF dim = 3
       THEN [next |-> "Surf file cannot contain lines for 3d simulation",
             np |-> np, nl |-> nl, nt |-> nt]
       ELSE [next |-> "continue", np |-> np, nl |-> sscanf(l, nl), nt |-> nt]
  ELSE IF strstr(l, "triangles")
  THEN IF dim = 2
       THEN [next |-> "Surf file cannot contain triangles for 2d simulation",
             np |-> np, nl |-> nl, nt |-> nt]
       ELSE [next |-> "continue", np |-> np, nl |-> nl, nt |-> sscanf(l, nt)]
  ELSE [next |-> "break", np |-> np, nl |-> nl, nt |-> nt]

\* the checks of lines 343-347 without those of the lines and triangles counts
header_end_points_only(dim, np, nl, nt) ==
  IF np = 0 THEN "Surf files does not contain points" ELSE ""

\* header(), lines 343-347: "" when the counts are accepted
header_end(dim, np, nl, nt) ==
  IF np = 0 THEN "Surf files does not contain points"
  ELSE IF dim = 2 /\ nl = 0 THEN "Surf files does not contain lines"
  ELSE IF dim = 3 /\ nt = 0 THEN "Surf files does not contain triangles"
  ELSE ""

\* the broadcasts of one pass of header()'s loop for a line of length n
header_bcasts(n, raw) ==
  IF n = 0 THEN <<IntMsg(0)>> ELSE <<IntMsg(n), CharMsg(n, <<raw>>)>>

\* header()'s loop with the broadcast of the line left to the coordinator
header_calls_coordinator_only(w, n) ==
  IF n = 0 \/ w # 0 THEN << <<"int", 1>> >> ELSE << <<"int", 1>>, <<"char", n>> >>

\* the MPI_Bcast calls worker w issues in one pass of header()'s loop
header_calls(w, n) ==
  IF n = 0 THEN << <<"int", 1>> >> ELSE << <<"int", 1>>, <<"char", n>> >>

\* command(), lines 81-97: the arrays are taken from the store and extended
Extend(w) ==
  /\ pts' = [pts EXCEPT ![w] = surf[w].pts]
  /\ lines' = [lines EXCEPT ![w] = surf[w].lines]
  /\ tris' = [tris EXCEPT ![w] = surf[w].tris]
  /\ npoint_old' = [npoint_old EXCEPT ![w] = surf[w].npoint]
  /\ nline_old' = [nline_old EXCEPT ![w] = surf[w].nline]
  /\ ntri_old' = [ntri_old EXCEPT ![w] = surf[w].ntri]

HeaderLine(w) ==
  /\ w \in Procs
  /\ pc[w] = "header"
  /\ w # 0 => NextBc(w) <= Len(bc)
  /\ LET eof == fp > Len(file)
         n == IF w = 0 THEN (IF eof THEN 0 ELSE strlen(file[fp]) + 1)
              ELSE bc[NextBc(w)].ival
         raw == IF n = 0 THEN <<>>
                ELSE IF w = 0 THEN file[fp] ELSE bc[NextBc(w) + 1].text[1]
         msgs == header_bcasts(n, raw)
         l == StripComment(raw)
         h == header_line(dimension, l, npoint_new[w], nline_new[w], ntri_new[w])
         e == header_end(dimension, h.np, h.nl, h.nt)
     IN /\ bc' = IF w = 0 THEN bc \o msgs ELSE bc
        /\ fp' = IF w = 0 /\ ~eof THEN fp + 1 ELSE fp
        /\ bclog' = [bclog EXCEPT ![w] = @ \o header_calls(w, n)]
        /\ line' = [line EXCEPT ![w] = l]
        /\ UNCHANGED <<inputVars, aborted, surf, id, keyword, nread, origin, iarg, nbad>>
        /\ IF n = 0
           THEN /\ Extend(w)
                /\ goto(w, "kw_points")
                /\ UNCHANGED <<npoint_new, nline_new, ntri_new>>
           ELSE /\ npoint_new' = [npoint_new EXCEPT ![w] = h.np]
                /\ nline_new' = [nline_new EXCEPT ![w] = h.nl]
                /\ ntri_new' = [ntri_new EXCEPT ![w] = h.nt]
                /\ IF h.next = "continue"
                   THEN /\ goto(w, "header")
                        /\ UNCHANGED <<pts, lines, tris, npoint_old, nline_old, ntri_old>>
                   ELSE IF h.next # "break"
                   THEN /\ error_all(w, h.next)
                        /\ UNCHANGED <<pts, lines, tris, npoint_old, nline_old, ntri_old>>
                   ELSE IF e # ""
                   THEN /\ error_all(w, e)
                        /\ UNCHANGED <<pts, lines, tris, npoint_old, nline_old, ntri_old>>
                   ELSE /\ Extend(w)
                        /\ goto(w, "kw_points")

(***************************************************************************)
(* parse_keyword(first): what the coordinator reads.  Returns eof, the     *)
(* keyword line and the new file position.                                 *)
(***************************************************************************)
RECURSIVE SkipBlank(_, _, _)
SkipBlank(f, l, pos) ==
  IF ~IsBlank(l) THEN [eof |-> 0, line |-> l, fp |-> pos]
  ELSE IF pos > Len(f) THEN [eof |-> 1, line |-> l, fp |-> pos]
  ELSE SkipBlank(f, f[pos], pos + 1)

read_keyword(f, first, l0, pos) ==
  LET a == IF first THEN [eof |-> 0, line |-> l0, fp |-> pos]
           ELSE IF pos > Len(f) THEN [eof |-> 1, line |-> l0, fp |-> pos]
           ELSE [eof |-> 0, line |-> f[pos], fp |-> pos + 1]
      b == IF a.eof = 1 THEN a ELSE SkipBlank(f, a.line, a.fp)
  IN  IF b.fp > Len(f) THEN [b EXCEPT !.eof = 1]
      ELSE [b EXCEPT !.fp = b.fp + 1]

keyword_bcasts(eof, l) ==
  IF eof = 1 THEN <<IntMsg(1)>>
  ELSE <<IntMsg(0), IntMsg(strlen(l) + 1), CharMsg(strlen(l) + 1, <<l>>)>>

\* command(), lines 101-115: the section the keyword must name
expected_keyword(first, dim) ==
  IF first THEN <<"Points">> ELSE IF dim = 2 THEN <<"Lines">> ELSE <<"Triangles">>

keyword_error(first, dim) ==
  IF first THEN "Surf file cannot parse Points section"
  ELSE IF dim = 2 THEN "Surf file cannot parse Lines section"
  ELSE "Surf file cannot parse Triangles section"

section_pc(first, dim) ==
  IF first THEN "read_points" ELSE IF dim = 2 THEN "read_lines" ELSE "read_tris"

ParseKeyword(w) ==
  /\ w \in Procs
  /\ pc[w] \in {"kw_points", "kw_prims"}
  /\ w # 0 => NextBc(w) <= Len(bc)
  /\ LET first == pc[w] = "kw_points"
         r == read_keyword(file, first, line[w], fp)
         eof == IF w = 0 THEN r.eof ELSE bc[NextBc(w)].ival
         l == IF w = 0 THEN r.line
              ELSE IF eof = 1 THEN line[w] ELSE bc[NextBc(w) + 2].text[1]
         msgs == keyword_bcasts(eof, l)
         kw == IF eof = 1 THEN <<>> ELSE l
     IN /\ bc' = IF w = 0 THEN bc \o msgs ELSE bc
        /\ fp' = IF w = 0 THEN r.fp ELSE fp
        /\ bclog' = [bclog EXCEPT ![w] = @ \o [i \in 1 .. Len(msgs) |-> Call(msgs[i])]]
        /\ line' = [line EXCEPT ![w] = l]
        /\ keyword' = [keyword EXCEPT ![w] = kw]
        /\ nread' = [nread EXCEPT ![w] = 0]
        /\ UNCHANGED <<inputVars, aborted, surf, id, countVars, geomVars, iarg, nbad>>
        /\ IF kw # expected_keyword(first, dimension)
           THEN error_all(w, keyword_error(first, dimension))
           ELSE goto(w, section_pc(first, dimension))

(***************************************************************************)
(* read_points(), read_lines(), read_tris(): one chunk per step.           *)
(* A record is parsed by strtok from its first character with the newline  *)
(* among the delimiters.  A record with more tokens than needed is parsed  *)
(* from its first tokens.  A record with fewer tokens takes the missing    *)
(* ones from the records after it; strtok ends each of them with a 0 byte, *)
(* so the parse of the following record finds the end of the string after  *)
(* its first token and calls atof/atoi with a null pointer (st = "crash"), *)
(* as does the short record itself when the buffer holds no more tokens.   *)
(***************************************************************************)
RECURSIVE Flatten(_)
Flatten(recs) == IF recs = <<>> THEN <<>> ELSE Head(recs) \o Flatten(Tail(recs))

\* the tokens strtok returns for the first record of recs, at most the needed ones
record_tokens(recs, need) ==
  IF Len(Head(recs)) >= need THEN Head(recs) ELSE Head(recs) \o Flatten(Tail(recs))

chunk_size(total, done) == IF total - done > CHUNK THEN CHUNK ELSE total - done

\* the coordinator's fgets loop hits end of input
chunk_eof(f, pos, nchunk) == pos + nchunk - 1 > Len(f)

\* the end of input reported with error->all, which ends the caller only
eof_error_all(w) == error_all(w, "Unexpected end of surf file") /\ UNCHANGED aborted

\* lines 372, 433, 495: what the coordinator does then
eof_error(w) == error_one(w, "Unexpected end of surf file")

RECURSIVE chunk_len(_)
chunk_len(recs) == IF recs = <<>> THEN 0 ELSE strlen(Head(recs)) + chunk_len(Tail(recs))

chunk_bcasts(recs) ==
  <<IntMsg(chunk_len(recs) + 1), CharMsg(chunk_len(recs) + 1, recs)>>

\* the records of worker w's next chunk
chunk_records(w, nchunk) ==
  IF w = 0 THEN SubSeq(file, fp, fp + nchunk - 1) ELSE bc[NextBc(w) + 1].text

point_words(dim) == IF dim = 3 THEN 4 ELSE 3

\* lines 380-389: only the first record of the chunk has its words counted
point_format_ok(dim, recs) == count_words(recs[1]) = point_words(dim)

parse_point(dim, r) ==
  <<atof(r[2]), atof(r[3]), IF dim = 3 THEN atof(r[4]) ELSE 0>>

RECURSIVE parse_points(_, _, _)
parse_points(dim, recs, acc) ==
  IF recs = <<>> THEN [st |-> "ok", arr |-> acc]
  ELSE LET t == record_tokens(recs, point_words(dim))
       IN IF Len(t) < point_words(dim) THEN [st |-> "crash", arr |-> acc]
          ELSE IF Len(Head(recs)) < point_words(dim)
          THEN [st |-> "crash", arr |-> Append(acc, parse_point(dim, t))]
          ELSE parse_points(dim, Tail(recs), Append(acc, parse_point(dim, t)))

ReadPoints(w) ==
  /\ w \in Procs
  /\ pc[w] = "read_points"
  /\ w # 0 => NextBc(w) + 1 <= Len(bc)
  /\ LET nchunk == chunk_size(npoint_new[w], nread[w])
     IN IF w = 0 /\ chunk_eof(file, fp, nchunk)
        THEN /\ eof_error(w)
             /\ UNCHANGED <<inputVars, fp, bc, bclog, surf, id, countVars,
                            line, keyword, nread, geomVars, iarg, nbad>>
        ELSE LET recs == chunk_records(w, nchunk)
                 msgs == chunk_bcasts(recs)
                 r == parse_points(dimension, recs, pts[w])
             IN /\ bc' = IF w = 0 THEN bc \o msgs ELSE bc
                /\ fp' = IF w = 0 THEN fp + nchunk ELSE fp
                /\ bclog' = [bclog EXCEPT ![w] = @ \o <<Call(msgs[1]), Call(msgs[2])>>]
                /\ UNCHANGED <<inputVars, aborted, surf, id, countVars, line, keyword,
                               lines, tris, origin, iarg, nbad>>
                /\ IF ~point_format_ok(dimension, recs)
                   THEN /\ error_all(w, "Incorrect point format in surf file")
                        /\ UNCHANGED <<pts, nread>>
                   ELSE /\ pts' = [pts EXCEPT ![w] = r.arr]
                        /\ IF r.st = "crash"
                           THEN crash(w) /\ UNCHANGED nread
                           ELSE /\ nread' = [nread EXCEPT ![w] = @ + nchunk]
                                /\ goto(w, IF nread[w] + nchunk < npoint_new[w]
                                           THEN "read_points" ELSE "kw_prims")

\* lines 447: only the first record of the chunk has its words counted
line_format_ok(recs) == count_words(recs[1]) = 3

\* the check of line 455 without its upper bounds
line_index_ok_no_upper(p1, p2, np) ==
  ~(p1 < 1 \/ p2 < 1 \/ p1 = p2)

\* line 455
line_index_ok(p1, p2, np) ==
  ~(p1 < 1 \/ p1 > np \/ p2 < 1 \/ p2 > np \/ p1 = p2)

RECURSIVE parse_lines(_, _, _, _, _)
parse_lines(recs, acc, np, pold, sid) ==
  IF recs = <<>> THEN [st |-> "ok", arr |-> acc]
  ELSE IF Len(record_tokens(recs, 3)) < 3 THEN [st |-> "crash", arr |-> acc]
  ELSE LET p1 == atoi(record_tokens(recs, 3)[2])
           p2 == atoi(record_tokens(recs, 3)[3])
           new == Append(acc, [id |-> sid, p1 |-> p1 - 1 + pold, p2 |-> p2 - 1 + pold])
       IN IF ~line_index_ok(p1, p2, np)
          THEN [st |-> "Invalid point index in line", arr |-> acc]
          ELSE IF Len(Head(recs)) < 3 THEN [st |-> "crash", arr |-> new]
          ELSE parse_lines(Tail(recs), new, np, pold, sid)

\* command(), lines 119-128, after the last section is read
StartDirectives(w) ==
  /\ origin' = [origin EXCEPT ![w] = <<0, 0, 0>>]
  /\ iarg' = [iarg EXCEPT ![w] = 2]

ReadLines(w) ==
  /\ w \in Procs
  /\ pc[w] = "read_lines"
  /\ w # 0 => NextBc(w) + 1 <= Len(bc)
  /\ LET nchunk == chunk_size(nline_new[w], nread[w])
     IN IF w = 0 /\ chunk_eof(file, fp, nchunk)
        THEN /\ eof_error(w)
             /\ UNCHANGED <<inputVars, fp, bc, bclog, surf, id, countVars,
                            line, keyword, nread, geomVars, iarg, nbad>>
        ELSE LET recs == chunk_records(w, nchunk)
                 msgs == chunk_bcasts(recs)
                 r == parse_lines(recs, lines[w], npoint_new[w], npoint_old[w], id[w])
                 more == nread[w] + nchunk < nline_new[w]
             IN /\ bc' = IF w = 0 THEN bc \o msgs ELSE bc
                /\ fp' = IF w = 0 THEN fp + nchunk ELSE fp
                /\ bclog' = [bclog EXCEPT ![w] = @ \o <<Call(msgs[1]), Call(msgs[2])>>]
                /\ UNCHANGED <<inputVars, aborted, surf, id, countVars, line, keyword,
                               pts, tris, nbad>>
                /\ IF ~line_format_ok(recs)
                   THEN /\ error_all(w, "Incorrect line format in surf file")
                        /\ UNCHANGED <<lines, nread, origin, iarg>>
                   ELSE /\ lines' = [lines EXCEPT ![w] = r.arr]
                        /\ IF r.st = "crash"
                           THEN crash(w) /\ UNCHANGED <<nread, origin, iarg>>
                           ELSE IF r.st # "ok"
                           THEN error_all(w, r.st) /\ UNCHANGED <<nread, origin, iarg>>
                           ELSE /\ nread' = [nread EXCEPT ![w] = @ + nchunk]
                                /\ IF more
                                   THEN goto(w, "read_lines") /\ UNCHANGED <<origin, iarg>>
                                   ELSE goto(w, "directives") /\ StartDirectives(w)

\* line 509: only the first record of the chunk has its words counted
tri_format_ok(recs) == count_words(recs[1]) = 4

\* lines 518-519
tri_index_ok(p1, p2, p3, np) ==
  ~(p1 < 1 \/ p1 > np \/ p2 < 1 \/ p2 > np \/ p3 < 1 \/ p3 > np
    \/ p1 = p2 \/ p2 = p3)

RECURSIVE parse_tris(_, _, _, _, _)
parse_tris(recs, acc, np, pold, sid) ==
  IF recs = <<>> THEN [st |-> "ok", arr |-> acc]
  ELSE IF Len(record_tokens(recs, 4)) < 4 THEN [st |-> "crash", arr |-> acc]
  ELSE LET p1 == atoi(record_tokens(recs, 4)[2])
           p2 == atoi(record_tokens(recs, 4)[3])
           p3 == atoi(record_tokens(recs, 4)[4])
           new == Append(acc, [id |-> sid, p1 |-> p1 - 1 + pold,
                               p2 |-> p2 - 1 + pold, p3 |-> p3 - 1 + pold])
       IN IF ~tri_index_ok(p1, p2, p3, np)
          THEN [st |-> "Invalid point index in triangle", arr |-> acc]
          ELSE IF Len(Head(recs)) < 4 THEN [st |-> "crash", arr |-> new]
          ELSE parse_tris(Tail(recs), new, np, pold, sid)

ReadTris(w) ==
  /\ w \in Procs
  /\ pc[w] = "read_tris"
  /\ w # 0 => NextBc(w) + 1 <= Len(bc)
  /\ LET nchunk == chunk_size(ntri_new[w], nread[w])
     IN IF w = 0 /\ chunk_eof(file, fp, nchunk)
        THEN /\ eof_error(w)
             /\ UNCHANGED <<inputVars, fp, bc, bclog, surf, id, countVars,
                            line, keyword, nread, geomVars, iarg, nbad>>
        ELSE LET recs == chunk_records(w, nchunk)
                 msgs == chunk_bcasts(recs)
                 r == parse_tris(recs, tris[w], npoint_new[w], npoint_old[w], id[w])
                 more == nread[w] + nchunk < ntri_new[w]
             IN /\ bc' = IF w = 0 THEN bc \o msgs ELSE bc
                /\ fp' = IF w = 0 THEN fp + nchunk ELSE fp
                /\ bclog' = [bclog EXCEPT ![w] = @ \o <<Call(msgs[1]), Call(msgs[2])>>]
                /\ UNCHANGED <<inputVars, aborted, surf, id, countVars, line, keyword,
                               pts, lines, nbad>>
                /\ IF ~tri_format_ok(recs)
                   THEN /\ error_all(w, "Incorrect triangle format in surf file")
                        /\ UNCHANGED <<tris, nread, origin, iarg>>
                   ELSE /\ tris' = [tris EXCEPT ![w] = r.arr]
                        /\ IF r.st = "crash"
                           THEN crash(w) /\ UNCHANGED <<nread, origin, iarg>>
                           ELSE IF r.st # "ok"
                           THEN error_all(w, r.st) /\ UNCHANGED <<nread, origin, iarg>>
                           ELSE /\ nread' = [nread EXCEPT ![w] = @ + nchunk]
                                /\ IF more
                                   THEN goto(w, "read_tris") /\ UNCHANGED <<origin, iarg>>
                                   ELSE goto(w, "directives") /\ StartDirectives(w)

(***************************************************************************)
(* Geometric transformations of the new block                              *)
(***************************************************************************)
\* a loop over the whole array
InNew_whole_array(i, nold, nnew) == i <= nold + nnew

\* the loops start at m = n_old and run n_new times
InNew(i, nold, nnew) == i > nold /\ i <= nold + nnew

translate(P, nold, nnew, d) ==
  [i \in 1 .. Len(P) |->
     IF InNew(i, nold, nnew)
     THEN <<P[i][1] + d[1], P[i][2] + d[2], P[i][3] + d[3]>>
     ELSE P[i]]

\* s is in halves: s[k] * (x - o) / 2 is the product with the factor
scale(P, nold, nnew, dim, o, s) ==
  [i \in 1 .. Len(P) |->
     IF InNew(i, nold, nnew)
     THEN <<(s[1] * (P[i][1] - o[1])) \div 2 + o[1],
            (s[2] * (P[i][2] - o[2])) \div 2 + o[2],
            IF dim = 3 THEN (s[3] * (P[i][3] - o[3])) \div 2 + o[3] ELSE P[i][3]>>
     ELSE P[i]]

Sign(a) == IF a > 0 THEN 1 ELSE IF a < 0 THEN -1 ELSE 0

\* MathExtra::norm3 of an axis along one coordinate direction
norm3(r) == <<Sign(r[1]), Sign(r[2]), Sign(r[3])>>

\* atof(theta) as a number of quarter turns
quarter_turns(t) == IF t = "1.5708" THEN 1 ELSE IF t = "3.1416" THEN 2 ELSE 0

\* MathExtra: rotation of d by one quarter turn about the unit axis u
quarter(u, d) ==
  LET dot == u[1] * d[1] + u[2] * d[2] + u[3] * d[3]
  IN  <<u[1] * dot + (u[2] * d[3] - u[3] * d[2]),
        u[2] * dot + (u[3] * d[1] - u[1] * d[3]),
        u[3] * dot + (u[1] * d[2] - u[2] * d[1])>>

\* MathExtra::axisangle_to_quat, quat_to_mat, matvec
RECURSIVE matvec(_, _, _)
matvec(q, u, d) == IF q = 0 THEN d ELSE matvec(q - 1, u, quarter(u, d))

rotate(P, nold, nnew, dim, o, q, r) ==
  [i \in 1 .. Len(P) |->
     IF InNew(i, nold, nnew)
     THEN LET d == <<P[i][1] - o[1], P[i][2] - o[2], P[i][3] - o[3]>>
              dnew == matvec(q, norm3(r), d)
          IN  <<dnew[1] + o[1], dnew[2] + o[2],
                IF dim = 3 THEN dnew[3] + o[3] ELSE P[i][3]>>
     ELSE P[i]]

invert_lines(L, nold, nnew) ==
  [i \in 1 .. Len(L) |->
     IF InNew(i, nold, nnew) THEN [L[i] EXCEPT !.p1 = L[i].p2, !.p2 = L[i].p1]
     ELSE L[i]]

\* line 619: the loop over the triangles runs nline_new times
invert_tri_count(nline, ntri) == nline

invert_tris(T, nold, n) ==
  [i \in 1 .. Len(T) |->
     IF InNew(i, nold, n) THEN [T[i] EXCEPT !.p2 = T[i].p3, !.p3 = T[i].p2]
     ELSE T[i]]

(***************************************************************************)
(* command(), lines 129-220: one directive per step                        *)
(***************************************************************************)
BadTransform == "Invalid read_surf geometry transformation for 2d simulation"

BadCommand == "Invalid read_surf command"

\* the k-th argument after the directive's keyword
ArgAt(w, k) == arg[iarg[w] + 1 + k]

ArgLen3(w) == <<atof(ArgAt(w, 1)), atof(ArgAt(w, 2)), atof(ArgAt(w, 3))>>

ArgNum3(w) == <<atofH(ArgAt(w, 1)), atofH(ArgAt(w, 2)), atofH(ArgAt(w, 3))>>

\* lines 179-183: the point at the given fractions of the box
ftrans_target(dim, f) ==
  <<boxlo(dim)[1] + (f[1] * prd(dim)[1]) \div 2,
    boxlo(dim)[2] + (f[2] * prd(dim)[2]) \div 2,
    IF dim = 3 THEN boxlo(dim)[3] + (f[3] * prd(dim)[3]) \div 2 ELSE 0>>

\* the out-of-plane parameter of a directive taken without its 2-D check
z_param_any(dim, v, neutral) == TRUE

\* lines 135, 147, 160, 176, 197: the out-of-plane parameter of a directive
z_param_ok(dim, v, neutral) == ~(dim = 2 /\ v # neutral)

Minus(a, b) == <<a[1] - b[1], a[2] - b[2], a[3] - b[3]>>

Plus(a, b) == <<a[1] + b[1], a[2] + b[2], a[3] + b[3]>>

\* a directive that moves the points by d and leaves the origin where it is
Moved_origin_kept(w, o, d) ==
  /\ origin' = origin
  /\ pts' = [pts EXCEPT ![w] = translate(@, npoint_old[w], npoint_new[w], d)]
  /\ iarg' = [iarg EXCEPT ![w] = @ + 4]
  /\ goto(w, "directives")
  /\ UNCHANGED <<lines, tris>>

\* a directive that moves the points by d and sets the origin to o
Moved(w, o, d) ==
  /\ origin' = [origin EXCEPT ![w] = o]
  /\ pts' = [pts EXCEPT ![w] = translate(@, npoint_old[w], npoint_new[w], d)]
  /\ iarg' = [iarg EXCEPT ![w] = @ + 4]
  /\ goto(w, "directives")
  /\ UNCHANGED <<lines, tris>>

Failed(w, msg) ==
  /\ error_all(w, msg)
  /\ UNCHANGED <<geomVars, iarg>>

Directive(w) ==
  /\ w \in Procs
  /\ pc[w] = "directives"
  /\ UNCHANGED <<inputVars, fp, bc, aborted, bclog, surf, id, countVars,
                 line, keyword, nread, nbad>>
  /\ LET narg == Len(arg)
         i == iarg[w]
         key == arg[i + 1]
     IN IF i >= narg
        THEN goto(w, "check_inside") /\ UNCHANGED <<geomVars, iarg>>
        ELSE IF key = "origin"
        THEN IF i + 4 > narg THEN Failed(w, BadCommand)
             ELSE IF ~z_param_ok(dimension, ArgLen3(w)[3], 0) THEN Failed(w, BadTransform)
             ELSE /\ origin' = [origin EXCEPT ![w] = ArgLen3(w)]
                  /\ iarg' = [iarg EXCEPT ![w] = @ + 4]
                  /\ goto(w, "directives")
                  /\ UNCHANGED <<pts, lines, tris>>
        ELSE IF key = "trans"
        THEN IF i + 4 > narg THEN Failed(w, BadCommand)
             ELSE IF ~z_param_ok(dimension, ArgLen3(w)[3], 0) THEN Failed(w, BadTransform)
             ELSE Moved(w, Plus(origin[w], ArgLen3(w)), ArgLen3(w))
        ELSE IF key = "atrans"
        THEN IF i + 4 > narg THEN Failed(w, BadCommand)
             ELSE IF ~z_param_ok(dimension, ArgLen3(w)[3], 0) THEN Failed(w, BadTransform)
             ELSE Moved(w, ArgLen3(w), Minus(ArgLen3(w), origin[w]))
        ELSE IF key = "ftrans"
        THEN IF i + 4 > narg THEN Failed(w, BadCommand)
             ELSE IF ~z_param_ok(dimension, ArgNum3(w)[3], 1) THEN Failed(w, BadTransform)
             ELSE Moved(w, ftrans_target(dimension, ArgNum3(w)),
                        Minus(ftrans_target(dimension, ArgNum3(w)), origin[w]))
        ELSE IF key = "scale"
        THEN IF i + 4 > narg THEN Failed(w, BadCommand)
             ELSE IF ~z_param_ok(dimension, ArgNum3(w)[3], 2) THEN Failed(w, BadTransform)
             ELSE /\ pts' = [pts EXCEPT ![w] = scale(@, npoint_old[w], npoint_new[w],
                                                     dimension, origin[w], ArgNum3(w))]
                  /\ iarg' = [iarg EXCEPT ![w] = @ + 4]
                  /\ goto(w, "directives")
                  /\ UNCHANGED <<lines, tris, origin>>
        ELSE IF key = "rotate"
        THEN IF i + 5 > narg THEN Failed(w, BadCommand)
             ELSE LET r == <<atofH(ArgAt(w, 2)), atofH(ArgAt(w, 3)), atofH(ArgAt(w, 4))>>
                  IN IF dimension = 2 /\ (r[1] # 0 \/ r[2] # 0 \/ r[3] # 2)
                     THEN Failed(w, BadTransform)
                     ELSE IF r[1] = 0 /\ r[2] = 0 /\ r[3] = 0
                     THEN Failed(w, BadTransform)
                     ELSE /\ pts' = [pts EXCEPT ![w] =
                                       rotate(@, npoint_old[w], npoint_new[w], dimension,
                                              origin[w], quarter_turns(ArgAt(w, 1)), r)]
                          /\ iarg' = [iarg EXCEPT ![w] = @ + 5]
                          /\ goto(w, "directives")
                          /\ UNCHANGED <<lines, tris, origin>>
        ELSE IF key = "invert"
        THEN /\ lines' = [lines EXCEPT ![w] =
                            IF dimension = 2
                            THEN invert_lines(@, nline_old[w], nline_new[w]) ELSE @]
             /\ tris' = [tris EXCEPT ![w] =
                           IF dimension = 3
                           THEN invert_tris(@, ntri_old[w],
                                            invert_tri_count(nline_new[w], ntri_new[w]))
                           ELSE @]
             /\ iarg' = [iarg EXCEPT ![w] = @ + 1]
             /\ goto(w, "directives")
             /\ UNCHANGED <<pts, origin>>
        ELSE Failed(w, BadCommand)

(***************************************************************************)
(* check_point_inside()                                                    *)
(***************************************************************************)
NewIdx(nold, nnew) == (nold + 1) .. (nold + nnew)

\* a test that lets a point on the boundary pass
outside_open(x, lo, hi) ==
  \/ x[1] < lo[1] \/ x[1] > hi[1]
  \/ x[2] < lo[2] \/ x[2] > hi[2]
  \/ x[3] < lo[3] \/ x[3] > hi[3]

\* lines 643-645
outside(x, lo, hi) ==
  \/ x[1] <= lo[1] \/ x[1] >= hi[1]
  \/ x[2] <= lo[2] \/ x[2] >= hi[2]
  \/ x[3] <= lo[3] \/ x[3] >= hi[3]

inside_nbad(P, nold, nnew, dim) ==
  Cardinality({i \in NewIdx(nold, nnew) : outside(P[i], boxlo(dim), boxhi(dim))})

Validated(w, n, msg, nextpc) ==
  /\ nbad' = [nbad EXCEPT ![w] = n]
  /\ IF n # 0 THEN error_all(w, msg) ELSE goto(w, nextpc)

CheckPointInside(w) ==
  /\ w \in Procs
  /\ pc[w] = "check_inside"
  /\ Validated(w, inside_nbad(pts[w], npoint_old[w], npoint_new[w], dimension),
               "read_surf points are not inside simulation box", "check_pairs")
  /\ UNCHANGED <<inputVars, fp, bc, aborted, bclog, surf, id, countVars,
                 line, keyword, nread, geomVars, iarg>>

(***************************************************************************)
(* check_point_pairs()                                                     *)
(***************************************************************************)
\* lines 674-677: epsilon, in fine units
epsilon(dim) ==
  (IF dim = 3 THEN MIN(MIN(prd(dim)[1], prd(dim)[2]), prd(dim)[3])
   ELSE MIN(prd(dim)[1], prd(dim)[2])) \div EPSILON_INV

\* rsq < epssq; a coordinate difference of epsilon or more already decides it
too_close(p, q, eps) ==
  LET dx == p[1] - q[1]
      dy == p[2] - q[2]
      dz == p[3] - q[3]
  IN  /\ Abs(dx) < eps /\ Abs(dy) < eps /\ Abs(dz) < eps
      /\ dx * dx + dy * dy + dz * dz < eps * eps

\* static_cast<int>(edge / bin) for bin = (volume / n)^(1/dim): the largest
\* k with k^dim * (volume / n) <= edge^dim; edges are counted in whole units
whole(dim) == [k \in 1 .. 3 |-> prd(dim)[k] \div Unit]

raw_bins(dim, n, k) ==
  LET e == whole(dim)
      fits(c) == IF dim = 2
                 THEN c * c * e[1] * e[2] <= n * e[k] * e[k]
                 ELSE c * c * c * e[1] * e[2] * e[3] <= n * e[k] * e[k] * e[k]
  IN  CHOOSE c \in 0 .. n : fits(c) /\ (c = n \/ ~fits(c + 1))

\* lines 689-711: the number of bins along axis k
nbin(dim, n, k) ==
  LET c == IF dim = 2 /\ k = 3 THEN 1 ELSE raw_bins(dim, n, k)
      c1 == IF c = 0 THEN 1 ELSE c
  IN  IF c1 > 1 THEN c1 + 1 ELSE c1

\* lines 712-714
binsize(dim, n, k) == prd(dim)[k] \div nbin(dim, n, k)

\* lines 734-736 (pass 1) and 803-808 (pass 2)
bin_origin(dim, n, pass, k) ==
  IF pass = 2 /\ nbin(dim, n, k) # 1
  THEN boxlo(dim)[k] - binsize(dim, n, k) \div 2
  ELSE boxlo(dim)[k]

\* lines 740-742, 812-814
bin_of(x, dim, n, pass) ==
  [k \in 1 .. 3 |-> (x[k] - bin_origin(dim, n, pass, k)) \div binsize(dim, n, k)]

\* binhead[ix][iy][iz] is an element of the array
bin_in_range(b, dim, n) == \A k \in 1 .. 3 : b[k] >= 0 /\ b[k] < nbin(dim, n, k)

\* bin[m] is an element of the array of length npoint_new
member_in_range(m, nnew) == m >= 0 /\ m < nnew

\* lines 769-787, 822-840: pairs of points of one bin closer than epsilon
pairs_nbad(P, nold, nnew, dim, pass) ==
  Cardinality({ij \in NewIdx(nold, nnew) \X NewIdx(nold, nnew) :
                 /\ ij[1] < ij[2]
                 /\ bin_of(P[ij[1]], dim, nnew, pass) = bin_of(P[ij[2]], dim, nnew, pass)
                 /\ too_close(P[ij[1]], P[ij[2]], epsilon(dim))})

\* the accesses of a binning pass stay inside binhead and bin
pass_in_bounds(P, nold, nnew, dim, pass) ==
  \A i \in NewIdx(nold, nnew) :
    /\ bin_in_range(bin_of(P[i], dim, nnew, pass), dim, nnew)
    /\ member_in_range(i - 1, nnew)

\* "ok", "fail1", "fail2", or "undefined" when an access leaves its array
pairs_result(P, nold, nnew, dim) ==
  IF ~pass_in_bounds(P, nold, nnew, dim, 1) THEN "undefined"
  ELSE IF pairs_nbad(P, nold, nnew, dim, 1) # 0 THEN "fail1"
  ELSE IF ~pass_in_bounds(P, nold, nnew, dim, 2) THEN "undefined"
  ELSE IF pairs_nbad(P, nold, nnew, dim, 2) # 0 THEN "fail2"
  ELSE "ok"

TooClose == "read_surf point pairs are too close"

CheckPointPairs(w) ==
  /\ w \in Procs
  /\ pc[w] = "check_pairs"
  /\ UNCHANGED <<inputVars, fp, bc, aborted, bclog, surf, id, countVars,
                 line, keyword, nread, geomVars, iarg>>
  /\ LET r == pairs_result(pts[w], npoint_old[w], npoint_new[w], dimension)
     IN IF r = "undefined"
        THEN \* an out-of-bounds access: the worker crashes, or the check
             \* passes, or it reports some number of pairs
             \/ crash(w) /\ UNCHANGED nbad
             \/ Validated(w, 0, TooClose, "check_watertight")
             \/ \E k \in 1 .. npoint_new[w] : Validated(w, k, TooClose, "check_watertight")
        ELSE Validated(w,
                       IF r = "ok" THEN 0
                       ELSE pairs_nbad(pts[w], npoint_old[w], npoint_new[w], dimension,
                                       IF r = "fail1" THEN 1 ELSE 2),
                       TooClose, "check_watertight")

(***************************************************************************)
(* check_watertight_2d()                                                   *)
(***************************************************************************)
\* a count of first endpoints only
endpoint_count_first_only(L, lold, lnew, pold, i) ==
  Cardinality({m \in NewIdx(lold, lnew) : L[m].p1 - pold = i})

\* count[i] for the new point with local index i (0-based)
endpoint_count(L, lold, lnew, pold, i) ==
  Cardinality({m \in NewIdx(lold, lnew) : L[m].p1 - pold = i})
    + Cardinality({m \in NewIdx(lold, lnew) : L[m].p2 - pold = i})

watertight_2d_nbad(L, lold, lnew, pold, pnew) ==
  Cardinality({i \in 0 .. (pnew - 1) : endpoint_count(L, lold, lnew, pold, i) # 2})

CheckWatertight2d(w) ==
  /\ w \in Procs
  /\ pc[w] = "check_watertight"
  /\ dimension = 2
  /\ Validated(w, watertight_2d_nbad(lines[w], nline_old[w], nline_new[w],
                                     npoint_old[w], npoint_new[w]),
               "read_surf lines are not watertight", "commit")
  /\ UNCHANGED <<inputVars, fp, bc, aborted, bclog, surf, id, countVars,
                 line, keyword, nread, geomVars, iarg>>

(***************************************************************************)
(* check_watertight_3d()                                                   *)
(***************************************************************************)
\* the three edges of a triangle, each <<MIN, MAX>> of local point indices
tri_edges(t, pold) ==
  LET p1 == t.p1 - pold
      p2 == t.p2 - pold
      p3 == t.p3 - pold
  IN  << <<MIN(p1, p2), MAX(p1, p2)>>, <<MIN(p2, p3), MAX(p2, p3)>>,
         <<MIN(p3, p1), MAX(p3, p1)>> >>

RECURSIVE all_edges(_, _, _, _)
all_edges(T, m, last, pold) ==
  IF m > last THEN <<>> ELSE tri_edges(T[m], pold) \o all_edges(T, m + 1, last, pold)

\* lines 909-924
ecountmax(E, i) == Cardinality({k \in 1 .. Len(E) : E[k][1] = i}) \div 2

\* lines 955-992 for one edge: tab[i] lists <<neighbour, multiplicity>>
add_edge(st, e, E) ==
  LET row == st.tab[e[1]]
      hit == {j \in 1 .. Len(row) : row[j][1] = e[2]}
  IN  IF hit = {}
      THEN IF Len(row) = ecountmax(E, e[1])
           THEN [st EXCEPT !.nbad1 = @ + 1]
           ELSE [st EXCEPT !.tab[e[1]] = Append(row, <<e[2], 1>>)]
      ELSE LET j == CHOOSE j \in hit : TRUE
           IN  [st EXCEPT !.tab[e[1]][j] = <<e[2], row[j][2] + 1>>]

RECURSIVE add_edges(_, _, _)
add_edges(st, k, E) ==
  IF k > Len(E) THEN st ELSE add_edges(add_edge(st, E[k], E), k + 1, E)

\* a tally that takes 2 as the only good multiplicity
wrong_multiplicity_two_only(tab, pnew) ==
  LET bad(i) == Cardinality({j \in 1 .. Len(tab[i]) : tab[i][j][2] # 2})
      sum[i \in 0 .. pnew] == IF i = 0 THEN 0 ELSE sum[i - 1] + bad(i - 1)
  IN  sum[pnew]

\* lines 1024-1027
wrong_multiplicity(tab, pnew) ==
  LET bad(i) == Cardinality({j \in 1 .. Len(tab[i]) :
                               tab[i][j][2] # 2 /\ tab[i][j][2] # 4})
      sum[i \in 0 .. pnew] == IF i = 0 THEN 0 ELSE sum[i - 1] + bad(i - 1)
  IN  sum[pnew]

\* lines 948-995: the edge rows and nbad1 after the loop over the new triangles
edge_table(T, told, tnew, pold, pnew) ==
  LET E == all_edges(T, told + 1, told + tnew, pold)
  IN  add_edges([tab |-> [i \in 0 .. (pnew - 1) |-> <<>>], nbad1 |-> 0], 1, E)

watertight_3d_nbad(T, told, tnew, pold, pnew) ==
  LET st == edge_table(T, told, tnew, pold, pnew)
  IN  st.nbad1 + wrong_multiplicity(st.tab, pnew)

CheckWatertight3d(w) ==
  /\ w \in Procs
  /\ pc[w] = "check_watertight"
  /\ dimension = 3
  /\ Validated(w, watertight_3d_nbad(tris[w], ntri_old[w], ntri_new[w],
                                     npoint_old[w], npoint_new[w]),
               "read_surf triangle edges are not watertight", "commit")
  /\ UNCHANGED <<inputVars, fp, bc, aborted, bclog, surf, id, countVars,
                 line, keyword, nread, geomVars, iarg>>

(***************************************************************************)
(* command(), lines 265-276: the store takes the extended arrays           *)
(***************************************************************************)
Commit(w) ==
  /\ w \in Procs
  /\ pc[w] = "commit"
  /\ surf' = [surf EXCEPT ![w] =
                [@ EXCEPT !.pts = pts[w], !.lines = lines[w], !.tris = tris[w],
                          !.npoint = npoint_old[w] + npoint_new[w],
                          !.nline = nline_old[w] + nline_new[w],
                          !.ntri = ntri_old[w] + ntri_new[w]]]
  /\ pc' = [pc EXCEPT ![w] = "done"]
  /\ status' = [status EXCEPT ![w] = "done"]
  /\ UNCHANGED <<inputVars, fp, bc, aborted, bclog, id, countVars,
                 line, keyword, nread, geomVars, iarg, nbad>>

(***************************************************************************)
(* The command on every worker                                             *)
(***************************************************************************)
Step(w) ==
  \/ Begin(w)
  \/ HeaderLine(w)
  \/ ParseKeyword(w)
  \/ ReadPoints(w)
  \/ ReadLines(w)
  \/ ReadTris(w)
  \/ Directive(w)
  \/ CheckPointInside(w)
  \/ CheckPointPairs(w)
  \/ CheckWatertight2d(w)
  \/ CheckWatertight3d(w)
  \/ Commit(w)
  \/ Killed(w)

Next == \E w \in AllProcs : Step(w)

Spec == Init /\ [][Next]_vars

\* MPI_Abort ends every process of the group: an abort reaches every worker
FairSpec == Spec /\ \A w \in AllProcs : WF_vars(Killed(w))

(***************************************************************************)
(* check_point_pairs() on its own: a 2-D command that has read NPairPoints *)
(* points stands before the proximity check.  The points are drawn from    *)
(* positions next to the bin boundaries of both passes (4000000 box        *)
(* aligned, 6000000 half-cell offset, for bins of 4000000), at distances   *)
(* below, at and above epsilon = 12, and in the last half cell of the box. *)
(***************************************************************************)
NPairPoints == 4

PairPositions ==
  << <<3999999, 5999999, 0>>, <<4000001, 6000001, 0>>,
     <<3999999, 3999999, 0>>, <<4000001, 3999999, 0>>,
     <<5999999, 2000000, 0>>, <<6000001, 2000000, 0>>,
     <<3000000, 3000000, 0>>, <<3000012, 3000000, 0>>, <<3000024, 3000000, 0>>,
     <<11000000, 9000000, 0>> >>

\* the increasing sequences of n indices from lo .. Len(PairPositions)
RECURSIVE Increasing(_, _)
Increasing(n, lo) ==
  IF n = 0 THEN {<<>>}
  ELSE UNION { { <<i>> \o q : q \in Increasing(n - 1, i + 1) } :
               i \in lo .. Len(PairPositions) }

PairPoints == { [k \in 1 .. NPairPoints |-> PairPositions[q[k]]] :
                  q \in Increasing(NPairPoints, 1) }

\* the state before check_point_pairs(); the text of the file plays no part
InitPairs ==
  \E P \in PairPoints, s \in Stores(2) :
     /\ dimension = 2
     /\ nprocs = 1
     /\ grid_exist = TRUE
     /\ fexist = TRUE
     /\ file = <<>>
     /\ arg = <<"s1", "f">>
     /\ store = s
     /\ fp = 1
     /\ bc = <<>>
     /\ aborted = FALSE
     /\ pc = [w \in {0} |-> "check_pairs"]
     /\ status = [w \in {0} |-> "run"]
     /\ bclog = [w \in {0} |-> <<>>]
     /\ surf = [w \in {0} |-> add_id([s EXCEPT !.surf_exist = 1], "s1")]
     /\ id = [w \in {0} |-> Len(s.ids)]
     /\ npoint_new = [w \in {0} |-> NPairPoints]
     /\ nline_new = [w \in {0} |-> 0]
     /\ ntri_new = [w \in {0} |-> 0]
     /\ npoint_old = [w \in {0} |-> s.npoint]
     /\ nline_old = [w \in {0} |-> s.nline]
     /\ ntri_old = [w \in {0} |-> s.ntri]
     /\ line = [w \in {0} |-> <<>>]
     /\ keyword = [w \in {0} |-> <<>>]
     /\ nread = [w \in {0} |-> 0]
     /\ pts = [w \in {0} |-> s.pts \o P]
     /\ lines = [w \in {0} |-> s.lines]
     /\ tris = [w \in {0} |-> s.tris]
     /\ origin = [w \in {0} |-> <<0, 0, 0>>]
     /\ iarg = [w \in {0} |-> 2]
     /\ nbad = [w \in {0} |-> 0]

NextPairs == \E w \in AllProcs : CheckPointPairs(w)

SpecPairs == InitPairs /\ [][NextPairs]_vars

(***************************************************************************)
(* check_watertight_3d() on its own: a 3-D command that has read the four  *)
(* corner points of a tetrahedron and a list of triangles over them stands *)
(* before the watertight check.  The lists are all lists of up to MaxTris  *)
(* records, each record naming three distinct points in any order, and the *)
(* lists of four records that close a surface.  The store holds an earlier *)
(* surface, so that local and stored point indices differ; Spec runs the   *)
(* check from the empty store as well.                                     *)
(***************************************************************************)
MaxTris == 3

TetraPoints ==
  << <<3 * Unit, 3 * Unit, 3 * Unit>>, <<9 * Unit, 3 * Unit, 3 * Unit>>,
     <<3 * Unit, 9 * Unit, 3 * Unit>>, <<3 * Unit, 3 * Unit, 9 * Unit>> >>

\* the records a Triangles section can hold: three distinct local indices
Corners ==
  LET V == 0 .. (Len(TetraPoints) - 1)
  IN  {c \in V \X V \X V : c[1] # c[2] /\ c[2] # c[3] /\ c[1] # c[3]}

\* the number of records of L that hold both points i and j
shared(L, i, j) == Cardinality({k \in 1 .. Len(L) : {i, j} \subseteq {L[k][1], L[k][2], L[k][3]}})

\* closed surfaces of four records: the tetrahedron, two faces taken twice,
\* one face taken four times, in every order of records and of corners
ClosedLists ==
  {L \in [1 .. 4 -> Corners] :
     \A i, j \in 0 .. (Len(TetraPoints) - 1) : i < j => shared(L, i, j) % 2 = 0}

\* the state before check_watertight_3d() for the records L and the store s
TrisCase(L, s) ==
     /\ dimension = 3
     /\ nprocs = 1
     /\ grid_exist = TRUE
     /\ fexist = TRUE
     /\ file = <<>>
     /\ arg = <<"s1", "f">>
     /\ store = s
     /\ fp = 1
     /\ bc = <<>>
     /\ aborted = FALSE
     /\ pc = [w \in {0} |-> "check_watertight"]
     /\ status = [w \in {0} |-> "run"]
     /\ bclog = [w \in {0} |-> <<>>]
     /\ surf = [w \in {0} |-> add_id([s EXCEPT !.surf_exist = 1], "s1")]
     /\ id = [w \in {0} |-> Len(s.ids)]
     /\ npoint_new = [w \in {0} |-> Len(TetraPoints)]
     /\ nline_new = [w \in {0} |-> 0]
     /\ ntri_new = [w \in {0} |-> Len(L)]
     /\ npoint_old = [w \in {0} |-> s.npoint]
     /\ nline_old = [w \in {0} |-> s.nline]
     /\ ntri_old = [w \in {0} |-> s.ntri]
     /\ line = [w \in {0} |-> <<>>]
     /\ keyword = [w \in {0} |-> <<>>]
     /\ nread = [w \in {0} |-> 0]
     /\ pts = [w \in {0} |-> s.pts \o TetraPoints]
     /\ lines = [w \in {0} |-> s.lines]
     /\ tris = [w \in {0} |->
                  s.tris \o [k \in 1 .. Len(L) |->
                               [id |-> Len(s.ids), p1 |-> L[k][1] + s.npoint,
                                p2 |-> L[k][2] + s.npoint, p3 |-> L[k][3] + s.npoint]]]
     /\ origin = [w \in {0} |-> <<0, 0, 0>>]
     /\ iarg = [w \in {0} |-> 2]
     /\ nbad = [w \in {0} |-> 0]

InitTris ==
  \/ \E n \in 0 .. MaxTris : \E L \in [1 .. n -> Corners] : TrisCase(L, PriorSurf(3))
  \/ \E L \in ClosedLists : TrisCase(L, PriorSurf(3))

NextTris == \E w \in AllProcs : CheckWatertight3d(w)

SpecTris == InitTris /\ [][NextTris]_vars

(***************************************************************************)
(* check_watertight_2d() on its own: a 2-D command that has read the first *)
(* 3, 4 or 5 corner points of a pentagon and a list of segments over them  *)
(* stands before the watertight check.  The lists are all lists of up to   *)
(* MaxLines records, each record naming two different points, and the      *)
(* polygons through all the points, whole or with one segment missing, in  *)
(* every order of the records and of the two points of each record.        *)
(***************************************************************************)
MaxLines == 3

PentaPoints ==
  << <<6 * Unit, 10 * Unit, 0>>, <<10 * Unit, 7 * Unit, 0>>, <<8 * Unit, 2 * Unit, 0>>,
     <<4 * Unit, 2 * Unit, 0>>, <<2 * Unit, 7 * Unit, 0>> >>

\* the records a Lines section over n points can hold
Segments(n) == {c \in (0 .. (n - 1)) \X (0 .. (n - 1)) : c[1] # c[2]}

\* the sides of the polygon 0, 1, .., n-1, in both directions
Sides(n) == {c \in Segments(n) : c[2] = (c[1] + 1) % n \/ c[1] = (c[2] + 1) % n}

\* lists of k different sides of the polygon
SideLists(n, k) ==
  {L \in [1 .. k -> Sides(n)] :
     Cardinality({{L[i][1], L[i][2]} : i \in 1 .. k}) = k}

SegmentLists(n) ==
  UNION {[1 .. k -> Segments(n)] : k \in 0 .. MaxLines}
    \cup SideLists(n, n) \cup SideLists(n, n - 1)

InitLines ==
  \E n \in 3 .. Len(PentaPoints) : \E L \in SegmentLists(n), s \in Stores(2) :
     /\ dimension = 2
     /\ nprocs = 1
     /\ grid_exist = TRUE
     /\ fexist = TRUE
     /\ file = <<>>
     /\ arg = <<"s1", "f">>
     /\ store = s
     /\ fp = 1
     /\ bc = <<>>
     /\ aborted = FALSE
     /\ pc = [w \in {0} |-> "check_watertight"]
     /\ status = [w \in {0} |-> "run"]
     /\ bclog = [w \in {0} |-> <<>>]
     /\ surf = [w \in {0} |-> add_id([s EXCEPT !.surf_exist = 1], "s1")]
     /\ id = [w \in {0} |-> Len(s.ids)]
     /\ npoint_new = [w \in {0} |-> n]
     /\ nline_new = [w \in {0} |-> Len(L)]
     /\ ntri_new = [w \in {0} |-> 0]
     /\ npoint_old = [w \in {0} |-> s.npoint]
     /\ nline_old = [w \in {0} |-> s.nline]
     /\ ntri_old = [w \in {0} |-> s.ntri]
     /\ line = [w \in {0} |-> <<>>]
     /\ keyword = [w \in {0} |-> <<>>]
     /\ nread = [w \in {0} |-> 0]
     /\ pts = [w \in {0} |-> s.pts \o SubSeq(PentaPoints, 1, n)]
     /\ lines = [w \in {0} |->
                   s.lines \o [k \in 1 .. Len(L) |->
                                 [id |-> Len(s.ids), p1 |-> L[k][1] + s.npoint,
                                  p2 |-> L[k][2] + s.npoint]]]
     /\ tris = [w \in {0} |-> s.tris]
     /\ origin = [w \in {0} |-> <<0, 0, 0>>]
     /\ iarg = [w \in {0} |-> 2]
     /\ nbad = [w \in {0} |-> 0]

NextLines == \E w \in AllProcs : CheckWatertight2d(w)

SpecLines == InitLines /\ [][NextLines]_vars

TypeOK ==
  /\ dimension \in {2, 3}
  /\ nprocs \in 1 .. MaxProcs
  /\ \A w \in Procs : pc[w] \in {"start", "header", "kw_points", "read_points",
                                 "kw_prims", "read_lines", "read_tris", "directives",
                                 "check_inside", "check_pairs", "check_watertight",
                                 "commit", "done", "halted"}

(***************************************************************************)
(* Properties                                                              *)
(***************************************************************************)
\* worker w has read both sections of the file
PastReading(w) ==
  pc[w] \in {"directives", "check_inside", "check_pairs", "check_watertight",
            "commit", "done"}

\* worker w is inside header(), parse_keyword() or a section reader
Reading(w) ==
  pc[w] \in {"header", "kw_points", "read_points", "kw_prims", "read_lines", "read_tris"}

\* the geometry worker w's store holds is the geometry the command started from
GeometryKept(w) ==
  /\ surf[w].pts = store.pts /\ surf[w].lines = store.lines /\ surf[w].tris = store.tris
  /\ surf[w].npoint = store.npoint /\ surf[w].nline = store.nline
  /\ surf[w].ntri = store.ntri

\* C1: a worker that has ended in a fatal error holds the store exactly as it
\* was when the command started, the existence flag and the id registry included.
C1_NoPartialApplication ==
  \A w \in Procs : pc[w] = "halted" => surf[w] = store

\* C2: every worker issues the broadcasts the coordinator issues, in the same
\* order and with the same lengths: a worker's sequence of calls is always the
\* beginning of the sequence of messages the coordinator has posted, two workers
\* that have both finished reading have issued the same sequence, and a worker
\* inside the readers whose coordinator has finished reading without error
\* still has a posted message to receive.
C2_LockstepBroadcast ==
  \A w \in Procs :
     /\ Len(bclog[w]) <= Len(bc)
     /\ \A i \in 1 .. Len(bclog[w]) : bclog[w][i] = Call(bc[i])
     /\ PastReading(w) /\ PastReading(0) => bclog[w] = bclog[0]
     /\ Reading(w) /\ PastReading(0) => NextBc(w) <= Len(bc)

C2_Witness ==
  /\ nprocs = 2
  /\ pc[0] = "done" /\ pc[1] = "done"
  /\ Len(bclog[1]) >= 8
  /\ bclog[1] = bclog[0]

\* the coordinator has met a failure only it can see
CoordinatorFailed ==
  /\ pc[0] = "halted"
  /\ status[0] \in {"Cannot open file", "Unexpected end of data file",
                    "Unexpected end of surf file"}

AllHalted == \A w \in Procs : pc[w] = "halted"

\* C3: once the coordinator alone has failed (file not opened, end of input on
\* the first line or inside a chunk), no worker ever commits and every worker
\* eventually halts.
C3_CoordinatorFailureHaltsAll ==
  /\ [](CoordinatorFailed => \A w \in Procs : pc[w] # "done" /\ GeometryKept(w))
  /\ (CoordinatorFailed ~> AllHalted)

C3_Witness ==
  /\ nprocs = 2
  /\ CoordinatorFailed
  /\ status[0] = "Unexpected end of surf file"
  /\ status[1] = "killed"

\* the indices of worker w's new lines and new triangles in its arrays
NewLines(w) == (nline_old[w] + 1) .. MIN(Len(lines[w]), nline_old[w] + nline_new[w])

NewTris(w) == (ntri_old[w] + 1) .. MIN(Len(tris[w]), ntri_old[w] + ntri_new[w])

\* the records of the chunk worker w received last
last_chunk(w) == bc[Len(bclog[w])].text

\* C4: every line and every triangle of the new block references pairwise
\* distinct points: a record that repeats a vertex (for a triangle any two of
\* its three, the first and the third included) is never stored.
C4_RepeatedVertexRejected ==
  \A w \in Procs :
     /\ \A k \in NewLines(w) : lines[w][k].p1 # lines[w][k].p2
     /\ \A k \in NewTris(w) :
          /\ tris[w][k].p1 # tris[w][k].p2
          /\ tris[w][k].p2 # tris[w][k].p3
          /\ tris[w][k].p1 # tris[w][k].p3

\* global index p lies in the new block of points of worker w
InNewPoints(w, p) == npoint_old[w] <= p /\ p < npoint_old[w] + npoint_new[w]

\* C5: every point reference of a new line or triangle lies in
\* [npoint_old, npoint_old + npoint_new) at all times, after invert too, and
\* when a section has just been read every record's file index p is in
\* 1..npoint_new and its stored reference is p - 1 + npoint_old.
C5_IndexRangeAndTranslation ==
  \A w \in Procs :
     /\ \A k \in NewLines(w) :
          InNewPoints(w, lines[w][k].p1) /\ InNewPoints(w, lines[w][k].p2)
     /\ \A k \in NewTris(w) :
          /\ InNewPoints(w, tris[w][k].p1)
          /\ InNewPoints(w, tris[w][k].p2)
          /\ InNewPoints(w, tris[w][k].p3)
     /\ pc[w] = "directives" /\ iarg[w] = 2 /\ dimension = 2 =>
          \A k \in 1 .. nline_new[w] :
             LET r == last_chunk(w)[k]
             IN /\ atoi(r[2]) \in 1 .. npoint_new[w]
                /\ atoi(r[3]) \in 1 .. npoint_new[w]
                /\ lines[w][nline_old[w] + k].p1 = atoi(r[2]) - 1 + npoint_old[w]
                /\ lines[w][nline_old[w] + k].p2 = atoi(r[3]) - 1 + npoint_old[w]
     /\ pc[w] = "directives" /\ iarg[w] = 2 /\ dimension = 3 =>
          \A k \in 1 .. ntri_new[w] :
             LET r == last_chunk(w)[k]
             IN /\ atoi(r[2]) \in 1 .. npoint_new[w]
                /\ atoi(r[3]) \in 1 .. npoint_new[w]
                /\ atoi(r[4]) \in 1 .. npoint_new[w]
                /\ tris[w][ntri_old[w] + k].p1 = atoi(r[2]) - 1 + npoint_old[w]
                /\ tris[w][ntri_old[w] + k].p2 = atoi(r[3]) - 1 + npoint_old[w]
                /\ tris[w][ntri_old[w] + k].p3 = atoi(r[4]) - 1 + npoint_old[w]

\* a worker has committed lines read after two prior points and then inverted
C5_Witness ==
  \E w \in Procs :
     /\ pc[w] = "done"
     /\ dimension = 2
     /\ npoint_old[w] > 0
     /\ "invert" \in {arg[i] : i \in 1 .. Len(arg)}
     /\ \E k \in NewLines(w) : lines[w][k].p1 = npoint_old[w] + npoint_new[w] - 1

\* C6: a section is read to its end only if every record of it has the
\* number of tokens of its kind (points 3 in 2-D and 4 in 3-D, lines 3,
\* triangles 4), whichever its place in the chunk.
C6_TokenCountEveryRecord ==
  \A w \in Procs :
     /\ pc[w] = "kw_prims" =>
          \A k \in 1 .. Len(last_chunk(w)) :
             count_words(last_chunk(w)[k]) = point_words(dimension)
     /\ PastReading(w) =>
          \A k \in 1 .. Len(last_chunk(w)) :
             count_words(last_chunk(w)[k]) = IF dimension = 2 THEN 3 ELSE 4

\* the kind of count a header line without its comment gives, "" when none
CountKind(l) ==
  IF strstr(l, "points") THEN "points"
  ELSE IF strstr(l, "lines") THEN "lines"
  ELSE IF strstr(l, "triangles") THEN "triangles"
  ELSE ""

\* the position in f of the line that ends the header, Len(f) + 1 when the
\* header runs to the end of f
HeaderStop(f) ==
  LET K == {k \in 2 .. Len(f) :
              ~IsBlank(StripComment(f[k])) /\ CountKind(StripComment(f[k])) = ""}
  IN IF K = {} THEN Len(f) + 1 ELSE CHOOSE k \in K : \A j \in K : k <= j

\* the count of the given kind read from lines 2..j of f, 0 when none was read
RECURSIVE CountRead(_, _, _)
CountRead(f, j, kind) ==
  IF j < 2 THEN 0
  ELSE IF CountKind(StripComment(f[j])) = kind /\ IsInt(StripComment(f[j])[1])
  THEN atoi(StripComment(f[j])[1])
  ELSE CountRead(f, j - 1, kind)

\* the header of f holds a count line of the kind of the other dimensionality
WrongKindBefore(f, k, dim) ==
  \E j \in 2 .. (k - 1) :
     CountKind(StripComment(f[j])) = IF dim = 3 THEN "lines" ELSE "triangles"

\* worker w's counts are those read from the header lines of the file
CountsAreRead(w) ==
  /\ npoint_new[w] = CountRead(file, HeaderStop(file) - 1, "points")
  /\ nline_new[w] = CountRead(file, HeaderStop(file) - 1, "lines")
  /\ ntri_new[w] = CountRead(file, HeaderStop(file) - 1, "triangles")

\* worker w holds a nonzero points count and a nonzero count of the kind its
\* dimensionality requires
CountsPresent(w) ==
  /\ npoint_new[w] # 0
  /\ dimension = 2 => nline_new[w] # 0
  /\ dimension = 3 => ntri_new[w] # 0

\* C7 as stated: whenever header() has returned, a nonzero points count and
\* a nonzero count of the required kind have been read.
C7_HeaderAcceptanceAsStated ==
  \A w \in Procs : pc[w] = "kw_points" => CountsPresent(w)

\* C7 amended: header() returns only if no count line of the other
\* dimensionality's kind precedes the end of the header, and then with the
\* counts read; when a terminating line ended the header the counts required
\* are nonzero and that line is kept, each header error names a defect the
\* file has; when the end of input ended the header it returns with an empty
\* line and unchecked counts, and the command never gets past the parse of the
\* Points keyword.
C7_HeaderAcceptance ==
  \A w \in Procs :
     /\ pc[w] = "kw_points" =>
          /\ ~WrongKindBefore(file, HeaderStop(file), dimension)
          /\ CountsAreRead(w)
          /\ IF line[w] # <<>>
             THEN /\ HeaderStop(file) <= Len(file)
                  /\ line[w] = StripComment(file[HeaderStop(file)])
                  /\ CountsPresent(w)
             ELSE HeaderStop(file) = Len(file) + 1
     /\ status[w] \in {"Surf file cannot contain lines for 3d simulation",
                       "Surf file cannot contain triangles for 2d simulation"} =>
          WrongKindBefore(file, HeaderStop(file), dimension)
     /\ status[w] \in {"Surf files does not contain points",
                       "Surf files does not contain lines",
                       "Surf files does not contain triangles"} =>
          /\ HeaderStop(file) <= Len(file)
          /\ CountsAreRead(w)
          /\ ~CountsPresent(w)
     /\ pc[w] = "read_points" => HeaderStop(file) <= Len(file)

\* header() has returned at the end of input on a worker other than the
\* coordinator, with a points count and no lines count
C7_Witness ==
  /\ nprocs = 2
  /\ dimension = 2
  /\ pc[1] = "kw_points"
  /\ line[1] = <<>>
  /\ HeaderStop(file) = Len(file) + 1
  /\ npoint_new[1] > 0
  /\ nline_new[1] = 0

\* worker w takes a step that processes an invert directive
InvertStep(w) ==
  /\ pc[w] = "directives"
  /\ iarg[w] < Len(arg)
  /\ arg[iarg[w] + 1] = "invert"
  /\ iarg'[w] = iarg[w] + 1

\* C8: a step that processes an invert directive swaps the two endpoints of
\* every new line (2-D) and the second and third vertex of every one of the
\* ntri_new new triangles (3-D), and changes no point, no first vertex and no
\* line or triangle outside the new block.
C8_InvertReversesEveryPrimitive ==
  [][\A w \in AllProcs :
       w \in Procs /\ InvertStep(w) =>
         /\ pts'[w] = pts[w]
         /\ Len(lines'[w]) = Len(lines[w])
         /\ Len(tris'[w]) = Len(tris[w])
         /\ \A k \in 1 .. Len(lines[w]) :
              lines'[w][k] =
                IF dimension = 2 /\ InNew(k, nline_old[w], nline_new[w])
                THEN [lines[w][k] EXCEPT !.p1 = lines[w][k].p2, !.p2 = lines[w][k].p1]
                ELSE lines[w][k]
         /\ \A k \in 1 .. Len(tris[w]) :
              tris'[w][k] =
                IF dimension = 3 /\ InNew(k, ntri_old[w], ntri_new[w])
                THEN [tris[w][k] EXCEPT !.p2 = tris[w][k].p3, !.p3 = tris[w][k].p2]
                ELSE tris[w][k]]_vars

\* the directive worker w has processed last left the out-of-plane axis alone
LastDirectiveInPlane(w) ==
  LET i == iarg[w]
  IN /\ i >= 6 /\ arg[i - 3] \in {"origin", "trans", "atrans"} => atof(arg[i]) = 0
     /\ i >= 6 /\ arg[i - 3] = "ftrans" => atofH(arg[i]) = 1
     /\ i >= 6 /\ arg[i - 3] = "scale" => atofH(arg[i]) = 2
     /\ i >= 7 /\ arg[i - 4] = "rotate" =>
          atofH(arg[i - 2]) = 0 /\ atofH(arg[i - 1]) = 0 /\ atofH(arg[i]) = 2

\* C9: in 2-D the z coordinate of every new point and of the transform origin
\* is 0 in every state, and a directive is processed only if its out-of-plane
\* parameter is neutral (z offset 0, z scale 1, rotation axis (0,0,1)).
C9_OutOfPlaneStaysZero ==
  dimension = 2 =>
    \A w \in Procs :
       /\ origin[w][3] = 0
       /\ \A i \in NewIdx(npoint_old[w], npoint_new[w]) :
            i <= Len(pts[w]) => pts[w][i][3] = 0
       /\ pc[w] # "halted" => LastDirectiveInPlane(w)

\* a 2-D command has scaled and rotated its points and gone on to validation
C9_Witness ==
  \E w \in Procs :
     /\ dimension = 2
     /\ pc[w] = "check_inside"
     /\ iarg[w] = 11
     /\ arg[3] = "scale" /\ arg[7] = "rotate"
     /\ pts[w][npoint_old[w] + 1] # <<atof("3"), atof("3"), 0>>

\* the pairs of worker w's new points closer than epsilon
ClosePairs(w) ==
  {ij \in NewIdx(npoint_old[w], npoint_new[w]) \X NewIdx(npoint_old[w], npoint_new[w]) :
     ij[1] < ij[2] /\ too_close(pts[w][ij[1]], pts[w][ij[2]], epsilon(dimension))}

\* both binning passes of worker w keep their accesses inside their arrays
PairsDefined(w) ==
  /\ pass_in_bounds(pts[w], npoint_old[w], npoint_new[w], dimension, 1)
  /\ pass_in_bounds(pts[w], npoint_old[w], npoint_new[w], dimension, 2)

\* C10: when check_point_pairs has let a worker pass, no two of its new
\* points are closer than epsilon; when it has failed, the count it reports
\* is at most the number of pairs closer than epsilon.
C10_ProximityComplete ==
  \A w \in Procs :
     PairsDefined(w) =>
       /\ pc[w] = "check_watertight" => ClosePairs(w) = {}
       /\ status[w] = TooClose => nbad[w] <= Cardinality(ClosePairs(w))

NotWatertight3d == "read_surf triangle edges are not watertight"

\* check_watertight_3d has run on worker w
Checked3d(w) ==
  /\ dimension = 3
  /\ pc[w] \in {"commit", "done"} \/ status[w] = NotWatertight3d

\* every new triangle of worker w names three different points
DistinctCorners(w) ==
  \A m \in NewTris(w) :
     /\ tris[w][m].p1 # tris[w][m].p2
     /\ tris[w][m].p2 # tris[w][m].p3
     /\ tris[w][m].p3 # tris[w][m].p1

\* the corners of new triangle m of worker w
CornerSet(w, m) == {tris[w][m].p1, tris[w][m].p2, tris[w][m].p3}

\* the number of new triangles of worker w that hold both points of edge e
edge_multiplicity(w, e) == Cardinality({m \in NewTris(w) : e \subseteq CornerSet(w, m)})

\* the edges of the new triangles of worker w, as sets of two points
NewEdges(w) ==
  UNION {{{tris[w][m].p1, tris[w][m].p2}, {tris[w][m].p2, tris[w][m].p3},
          {tris[w][m].p3, tris[w][m].p1}} : m \in NewTris(w)}

EveryEdge2or4(w) == \A e \in NewEdges(w) : edge_multiplicity(w, e) \in {2, 4}

\* C11: for new triangles with three different points each, in any order of
\* the records, check_watertight_3d reports no failure exactly when every
\* edge of the new triangles lies in 2 or in 4 of them, and then no point's
\* edge capacity is exhausted.
C11_WatertightDecision3d ==
  \A w \in Procs :
     (Checked3d(w) /\ DistinctCorners(w)) =>
       IF EveryEdge2or4(w)
       THEN /\ nbad[w] = 0
            /\ edge_table(tris[w], ntri_old[w], ntri_new[w],
                          npoint_old[w], npoint_new[w]).nbad1 = 0
       ELSE nbad[w] # 0

\* four triangles passed the check with one edge in four of them and another
\* edge in two
C11_Witness ==
  \E w \in Procs :
     /\ dimension = 3
     /\ pc[w] = "commit"
     /\ ntri_new[w] = 4
     /\ \E e \in NewEdges(w) : edge_multiplicity(w, e) = 4
     /\ \E e \in NewEdges(w) : edge_multiplicity(w, e) = 2

\* the sets of corners of worker w's new triangles
Faces(w) == {CornerSet(w, m) : m \in NewTris(w)}

\* worker w's new triangles are n different faces of one tetrahedron
TetraFaces(w, n) ==
  /\ DistinctCorners(w)
  /\ ntri_new[w] = n
  /\ Cardinality(Faces(w)) = n
  /\ Cardinality(UNION Faces(w)) <= 4

\* C12: a closed tetrahedron passes check_watertight_3d; with one of its
\* four triangles removed, in every order of the three records and of the
\* corners in each record, the reported tally is exactly 3.
C12_OpenTetrahedronTally ==
  \A w \in Procs :
     Checked3d(w) =>
       /\ TetraFaces(w, 4) => nbad[w] = 0
       /\ TetraFaces(w, 3) => nbad[w] = 3

NotWatertight2d == "read_surf lines are not watertight"

\* check_watertight_2d has run on worker w
Checked2d(w) ==
  /\ dimension = 2
  /\ pc[w] \in {"commit", "done"} \/ status[w] = NotWatertight2d

\* how often point p ends one of the first k new segments of worker w
RECURSIVE occurrences(_, _, _)
occurrences(w, p, k) ==
  IF k = 0 THEN 0
  ELSE occurrences(w, p, k - 1)
         + (IF lines[w][nline_old[w] + k].p1 = p THEN 1 ELSE 0)
         + (IF lines[w][nline_old[w] + k].p2 = p THEN 1 ELSE 0)

\* the new points of worker w that do not end exactly two new segments
LoosePoints(w) ==
  {p \in npoint_old[w] .. (npoint_old[w] + npoint_new[w] - 1) :
     occurrences(w, p, nline_new[w]) # 2}

\* the two-point sets of worker w's new segments
SegmentEnds(w) == {{lines[w][m].p1, lines[w][m].p2} : m \in NewLines(w)}

\* the sides of the polygon through all new points of worker w
PolygonSides(w) ==
  {{npoint_old[w] + i, npoint_old[w] + ((i + 1) % npoint_new[w])} :
     i \in 0 .. (npoint_new[w] - 1)}

\* C13: the tally of check_watertight_2d is the number of new points that
\* do not end exactly two new segments, and the check fails exactly when
\* that number is not 0; a closed polygon of K points and K segments
\* passes, and a pentagon with one segment missing reports 2 failures.
C13_WatertightTally2d ==
  \A w \in Procs :
     Checked2d(w) =>
       /\ nbad[w] = Cardinality(LoosePoints(w))
       /\ status[w] = NotWatertight2d <=> LoosePoints(w) # {}
       /\ (nline_new[w] = npoint_new[w] /\ SegmentEnds(w) = PolygonSides(w))
            => pc[w] # "halted"
       /\ ( /\ npoint_new[w] = 5
            /\ nline_new[w] = 4
            /\ Cardinality(SegmentEnds(w)) = 4
            /\ SegmentEnds(w) \subseteq PolygonSides(w) )
            => nbad[w] = 2 /\ status[w] = NotWatertight2d

\* a pentagon with one segment missing has failed the check
C13_Witness ==
  \E w \in Procs :
     /\ Checked2d(w)
     /\ npoint_new[w] = 5
     /\ nline_new[w] = 4
     /\ Cardinality(SegmentEnds(w)) = 4
     /\ SegmentEnds(w) \subseteq PolygonSides(w)
     /\ nbad[w] = 2
     /\ status[w] = NotWatertight2d

NotInside == "read_surf points are not inside simulation box"

\* the new points of worker w with a coordinate at or beyond a box bound
OutsidePoints(w) ==
  {i \in NewIdx(npoint_old[w], npoint_new[w]) :
     \E k \in 1 .. 3 : \/ pts[w][i][k] <= boxlo(dimension)[k]
                       \/ pts[w][i][k] >= boxhi(dimension)[k]}

\* C14: check_point_inside fails exactly when some new point has a
\* coordinate at or below the lower or at or above the upper box bound on
\* some axis, a point on the boundary included; the count it reports is the
\* number of such new points, whatever the points of the old block are.
C14_StrictInside ==
  \A w \in Procs :
     /\ status[w] = NotInside => nbad[w] = Cardinality(OutsidePoints(w)) /\ nbad[w] > 0
     /\ pc[w] = "check_pairs" => nbad[w] = 0
     /\ pc[w] \in {"check_pairs", "check_watertight", "commit", "done"}
          => OutsidePoints(w) = {}

\* a command with prior points has failed the check with one new point on
\* the box boundary and no new point beyond it
C14_Witness ==
  \E w \in Procs :
     /\ status[w] = NotInside
     /\ npoint_old[w] > 0
     /\ nbad[w] = 1
     /\ \A i \in OutsidePoints(w) :
          /\ \A k \in 1 .. 3 : /\ pts[w][i][k] >= boxlo(dimension)[k]
                                /\ pts[w][i][k] <= boxhi(dimension)[k]

\* the first n entries of array A are those of array B
SamePrefix(A, B, n) == Len(A) >= n /\ Len(B) >= n /\ \A i \in 1 .. n : A[i] = B[i]

\* C15: reading the points, lines and triangles and every transform leave
\* each point below npoint_old, each line below nline_old and each triangle
\* below ntri_old as it was before the command; entries exist only below
\* old count + new count.
C15_OldBlockUntouched ==
  \A w \in Procs :
     /\ SamePrefix(pts[w], store.pts, npoint_old[w])
     /\ SamePrefix(lines[w], store.lines, nline_old[w])
     /\ SamePrefix(tris[w], store.tris, ntri_old[w])
     /\ pc[w] \notin {"start", "header", "halted"} =>
          /\ npoint_old[w] = store.npoint
          /\ nline_old[w] = store.nline
          /\ ntri_old[w] = store.ntri
          /\ Len(pts[w]) <= npoint_old[w] + npoint_new[w]
          /\ Len(lines[w]) <= nline_old[w] + nline_new[w]
          /\ Len(tris[w]) <= ntri_old[w] + ntri_new[w]
     /\ pc[w] = "done" =>
          /\ SamePrefix(surf[w].pts, store.pts, store.npoint)
          /\ SamePrefix(surf[w].lines, store.lines, store.nline)
          /\ SamePrefix(surf[w].tris, store.tris, store.ntri)

\* a command that started from a store with points has moved and inverted
\* its new block and committed it
C15_Witness ==
  \E w \in Procs :
     /\ pc[w] = "done"
     /\ store.npoint > 0
     /\ Len(arg) >= 7
     /\ arg[3] = "trans"
     /\ arg[7] = "invert"
     /\ surf[w].npoint > store.npoint

\* worker w takes the directive at its position in the argument list
DirectiveTaken(w) ==
  /\ pc[w] = "directives"
  /\ iarg[w] < Len(arg)
  /\ iarg'[w] # iarg[w]

\* the new points of worker w keep their offsets from the origin
OffsetsKept(w) ==
  /\ Len(pts'[w]) = Len(pts[w])
  /\ \A i \in NewIdx(npoint_old[w], npoint_new[w]) :
       Minus(pts'[w][i], origin'[w]) = Minus(pts[w][i], origin[w])

\* the three parameters of the directive at worker w's position, as lengths
Params(w) == <<atof(arg[iarg[w] + 2]), atof(arg[iarg[w] + 3]), atof(arg[iarg[w] + 4])>>

\* the origin of worker w after the step is at the fractions of the box the
\* directive at its position names (fractions in halves), z = 0 in 2-D
AtBoxFraction(w) ==
  /\ \A k \in 1 .. 2 :
       2 * (origin'[w][k] - boxlo(dimension)[k])
         = atofH(arg[iarg[w] + 1 + k]) * (boxhi(dimension)[k] - boxlo(dimension)[k])
  /\ IF dimension = 3
     THEN 2 * (origin'[w][3] - boxlo(3)[3])
            = atofH(arg[iarg[w] + 4]) * (boxhi(3)[3] - boxlo(3)[3])
     ELSE origin'[w][3] = 0

\* C16: trans, atrans and ftrans shift every new point and the origin by the
\* same offset; after atrans the origin is the point given, after ftrans it
\* is boxlo + f * box length per axis (z = 0 in 2-D); trans adds its offset
\* to the origin; origin sets the origin and moves no point; each step
\* takes the directive at the current position of the argument list.
C16_OriginTracksTranslation ==
  [][\A w \in Procs :
       DirectiveTaken(w) =>
         LET key == arg[iarg[w] + 1]
         IN  /\ key \in {"trans", "atrans", "ftrans"} => OffsetsKept(w)
             /\ key = "trans" => origin'[w] = Plus(origin[w], Params(w))
             /\ key = "atrans" => origin'[w] = Params(w)
             /\ key = "ftrans" => AtBoxFraction(w)
             /\ key = "origin" => origin'[w] = Params(w) /\ pts'[w] = pts[w]
             /\ key \in {"trans", "atrans", "ftrans", "origin"}
                  => iarg'[w] = iarg[w] + 4]_vars

\* a 2-D command has taken "atrans 6 6 0" from the origin (0,0,0): its first
\* new point, read at (3,3), and its origin have both moved by (6,6)
C16_Witness ==
  \E w \in Procs :
     /\ dimension = 2
     /\ iarg[w] >= 6
     /\ arg[3] = "atrans"
     /\ pc[w] \in {"directives", "check_inside"}
     /\ origin[w] = <<atof("6"), atof("6"), 0>>
     /\ iarg[w] = 6 => pts[w][npoint_old[w] + 1] = <<atof("9"), atof("9"), 0>>

\* C17: for new points that have passed the strict-inside check and any
\* number of prior points, both binning passes of check_point_pairs compute
\* bin indices with 0 <= ix < nbinx, 0 <= iy < nbiny, 0 <= iz < nbinz, and
\* every index into the membership array of length npoint_new lies in
\* [0, npoint_new).
C17_BinAccessInBounds ==
  \A w \in Procs :
     (pc[w] = "check_pairs" /\ OutsidePoints(w) = {}) =>
       \A pass \in 1 .. 2 : \A i \in NewIdx(npoint_old[w], npoint_new[w]) :
          /\ bin_in_range(bin_of(pts[w][i], dimension, npoint_new[w], pass),
                          dimension, npoint_new[w])
          /\ member_in_range(i - 1, npoint_new[w])

====
